---- MODULE Spec2Model ----
(***************************************************************************)
(* PTW (Predicate Time Windows): the block tree evaluator, the sweep-line  *)
(* utilities, the interval cache (ScheduleCache) and the schedule registry *)
(* (Schedule), modelled from the TypeScript sources.                       *)
(*                                                                         *)
(* Timestamps are UTC milliseconds, as in the sources.  TLC's integers are *)
(* 32 bits wide, so the domains explored lie within a few days of the      *)
(* epoch (1969-12 .. 1970-01): that window crosses a day, a month and a    *)
(* year boundary and holds negative timestamps.                            *)
(***************************************************************************)
EXTENDS Integers, Sequences, FiniteSets, TLC

VARIABLES
    expressions,  \* Schedule.expressions: id -> [block, name] (NoExpr when absent)
    cache,        \* ScheduleCache.cache: the Map, as its entries in insertion order
    now,          \* the value Date.now() returns
    tz,           \* the process's local time offset from UTC, in ms
    op,           \* the last operation and its arguments
    ret,          \* what the last operation returned
    held,         \* the interval list (array) the caller holds from the last call
    heldKey,      \* the cache key whose stored array `held` is (NoKey: none)
    evicted,      \* what the last evictLRU saw and removed
    recency,      \* cache keys in order of last access (ghost), most recent last
    built         \* a block object under mutation: its content and its _cachedHash

vars == <<expressions, cache, now, tz, op, ret, held, heldKey, evicted, recency, built>>

-----------------------------------------------------------------------------
(* Program constants *)

DayMs == 86400000
MaxTimeOfDay == 86399999
HourMs == 3600000
YearMin == -9999
YearMax == 9999
AlgebraicLimit == 9999

(* Bounds of the model *)

\* days explored on each side of the epoch
MaxDay == 1
\* most values in a field
MaxVals == 2
\* largest ScheduleCache maxSize explored
MaxCacheSize == 2
\* largest value of the clock
MaxNow == 1

-----------------------------------------------------------------------------
(* Small helpers *)

Max(a, b) == IF a >= b THEN a ELSE b
Min(a, b) == IF a <= b THEN a ELSE b

Range(seq) == {seq[i] : i \in 1..Len(seq)}

\* Math.max(Date.UTC(<day `days`, `ms` into it>), x), computed without
\* forming a product that does not fit 32 bits.
MaxUTC(days, ms, x) ==
    IF days < x \div DayMs THEN x ELSE Max(days * DayMs + ms, x)

\* Math.min(Date.UTC(<day `days`, `ms` into it>), x), likewise.
MinUTC(days, ms, x) ==
    IF days > x \div DayMs THEN x ELSE Min(days * DayMs + ms, x)

\* JavaScript's % : the remainder takes the sign of the dividend.
JsRem(a, b) == IF a >= 0 THEN a % b ELSE -((-a) % b)

-----------------------------------------------------------------------------
(* The UTC calendar of the JavaScript Date object *)

\* day number (days since 1970-01-01) of a timestamp
DayOf(t) == t \div DayMs

\* Date.UTC(y, m - 1, d) / DayMs, for a month m in 1..12
DaysFromCivil(y, m, d) ==
    LET yy  == IF m <= 2 THEN y - 1 ELSE y
        era == yy \div 400
        yoe == yy - era * 400
        mp  == IF m > 2 THEN m - 3 ELSE m + 9
        doy == (153 * mp + 2) \div 5 + d - 1
        doe == yoe * 365 + yoe \div 4 - yoe \div 100 + doy
    IN  era * 146097 + doe - 719468

\* [year, month (1..12), day] of a day number
CivilFromDays(z0) ==
    LET z   == z0 + 719468
        era == z \div 146097
        doe == z - era * 146097
        yoe == (doe - doe \div 1460 + doe \div 36524 - doe \div 146096) \div 365
        doy == doe - (365 * yoe + yoe \div 4 - yoe \div 100)
        mp  == (5 * doy + 2) \div 153
        d   == doy - (153 * mp + 2) \div 5 + 1
        m   == IF mp < 10 THEN mp + 3 ELSE mp - 9
        y   == yoe + era * 400 + (IF m <= 2 THEN 1 ELSE 0)
    IN  [year |-> y, month |-> m, day |-> d]

getUTCFullYear(t) == CivilFromDays(DayOf(t)).year
\* 0-based, as in JavaScript
getUTCMonth(t) == CivilFromDays(DayOf(t)).month - 1
getUTCDate(t) == CivilFromDays(DayOf(t)).day
\* 0 = Sunday; 1970-01-01 was a Thursday
getUTCDay(t) == (DayOf(t) + 4) % 7
\* Date.prototype.getFullYear: the year in local time
getFullYear(t, offset) == CivilFromDays((t + offset) \div DayMs).year

-----------------------------------------------------------------------------
(* Interval lists *)

Interval(s, e) == [start |-> s, end |-> e]

RECURSIVE InsertByStart(_, _)
\* x placed after every element whose start is <= x.start (a stable insertion)
InsertByStart(sorted, x) ==
    IF sorted = <<>> THEN <<x>>
    ELSE IF sorted[Len(sorted)].start <= x.start THEN Append(sorted, x)
    ELSE Append(InsertByStart(SubSeq(sorted, 1, Len(sorted) - 1), x), sorted[Len(sorted)])

RECURSIVE SortByStart(_)
\* Array.prototype.sort((a, b) => a.start - b.start): stable
SortByStart(seq) ==
    IF seq = <<>> THEN <<>>
    ELSE InsertByStart(SortByStart(SubSeq(seq, 1, Len(seq) - 1)), seq[Len(seq)])

\* push {start, end}, or extend the last range when merging and it touches
PushRange(result, s, e, shouldMerge) ==
    IF shouldMerge /\ Len(result) > 0 /\ s <= result[Len(result)].end + 1
    THEN [result EXCEPT ![Len(result)].end = Max(@, e)]
    ELSE Append(result, Interval(s, e))

RECURSIVE OptimizeFrom(_, _, _, _)
OptimizeFrom(sortedRanges, i, current, result) ==
    IF i > Len(sortedRanges) THEN Append(result, current)
    ELSE LET next == sortedRanges[i] IN
         IF next.start <= current.end + 1
         THEN OptimizeFrom(sortedRanges, i + 1,
                           [current EXCEPT !.end = Max(current.end, next.end)], result)
         ELSE OptimizeFrom(sortedRanges, i + 1, next, Append(result, current))

\* a getOptimizedRanges that leaves the values as they are
KeepRanges(values) == values

\* Field.getOptimizedRanges
getOptimizedRanges(values) ==
    IF Len(values) <= 1 THEN values
    ELSE LET sortedRanges == SortByStart(values)
         IN  OptimizeFrom(sortedRanges, 2, sortedRanges[1], <<>>)

RECURSIVE FirstIntersecting(_, _, _, _, _)
FirstIntersecting(ranges, newStart, left, right, result) ==
    IF left > right THEN result
    ELSE LET mid == (left + right) \div 2 IN
         IF ranges[mid + 1].end >= newStart
         THEN FirstIntersecting(ranges, newStart, left, mid - 1, mid)
         ELSE FirstIntersecting(ranges, newStart, mid + 1, right, result)

\* 0-based index, -1 when none
findFirstIntersectingIndex(ranges, newStart) ==
    FirstIntersecting(ranges, newStart, 0, Len(ranges) - 1, -1)

RECURSIVE LastIntersecting(_, _, _, _, _)
LastIntersecting(ranges, newEnd, left, right, result) ==
    IF left > right THEN result
    ELSE LET mid == (left + right) \div 2 IN
         IF ranges[mid + 1].start <= newEnd
         THEN LastIntersecting(ranges, newEnd, mid + 1, right, mid)
         ELSE LastIntersecting(ranges, newEnd, left, mid - 1, result)

\* 0-based index, -1 when none
findLastIntersectingIndex(ranges, newEnd) ==
    LastIntersecting(ranges, newEnd, 0, Len(ranges) - 1, -1)

\* does some interval of the list contain t
Contains(ranges, t) == \E i \in 1..Len(ranges) : ranges[i].start <= t /\ t <= ranges[i].end

-----------------------------------------------------------------------------
(* Merge state *)

\* MergeState: "DEFAULT", "EXPLICIT_ON", "EXPLICIT_OFF".
\* The optional `merge` argument: "undefined", "true", "false".
MergeStates == {"DEFAULT", "EXPLICIT_ON", "EXPLICIT_OFF"}
MergeArgs == {"undefined", "true", "false"}

\* a resolution that merges whatever the state and the argument
AlwaysMerge(state, merge) == TRUE

\* this.merge !== DEFAULT ? this.merge === EXPLICIT_ON : (merge ?? true)
ShouldMerge(state, merge) ==
    IF state # "DEFAULT" THEN state = "EXPLICIT_ON" ELSE merge # "false"

\* a boolean handed on as the `merge` argument
BoolArg(b) == IF b THEN "true" ELSE "false"

-----------------------------------------------------------------------------
(* Parsed numeric values: Number, Range, Algebraic (coefficientN * n +- constantY) *)

NumberValue(v) == [type |-> "Number", value |-> v]
RangeValue(s, e) == [type |-> "Range", start |-> s, end |-> e]
AlgebraicValue(a, o, y) ==
    [type |-> "Algebraic", coefficientN |-> a, operator |-> o, constantY |-> y]

\* Math.ceil(x / a) for a > 0
CeilDiv(x, a) == -((-x) \div a)

checkAlgebraic(expr) ==
    /\ expr.coefficientN > 0
    /\ expr.constantY >= 0
    /\ expr.coefficientN < AlgebraicLimit
    /\ expr.constantY < AlgebraicLimit

\* [ok |-> FALSE] stands for the `false` the function returns
getAlgebraicParameters(value, min, max) ==
    IF \/ (value.constantY > max /\ value.operator = "+")
       \/ (value.constantY < min /\ value.operator = "-")
    THEN [ok |-> FALSE, start |-> 1, end |-> 0]
    ELSE LET Y_SIGNED == IF value.operator = "+" THEN value.constantY ELSE -value.constantY
         IN  [ok    |-> TRUE,
              start |-> Max(CeilDiv(min - Y_SIGNED, value.coefficientN), 1),
              end   |-> (max - Y_SIGNED) \div value.coefficientN]

AlgebraicAt(value, n) ==
    IF value.operator = "+"
    THEN value.coefficientN * n + value.constantY
    ELSE value.coefficientN * n - value.constantY

\* one iteration of the loop of iterativeParsedValueCheck
ParsedValueMatches(value, toCheck, min, max) ==
    CASE value.type = "Number" -> value.value = toCheck
      [] value.type = "Range" -> toCheck >= value.start /\ toCheck <= value.end
      [] OTHER ->
            LET parameters == getAlgebraicParameters(value, min, max)
            IN  /\ parameters.ok
                /\ \E n \in parameters.start..parameters.end : AlgebraicAt(value, n) = toCheck

iterativeParsedValueCheck(values, toCheck, min, max) ==
    \E i \in 1..Len(values) : ParsedValueMatches(values[i], toCheck, min, max)

\* Field.validateParsedNumeric
validateParsedNumeric(value, minValue, maxValue) ==
    CASE value.type = "Number" -> value.value >= minValue /\ value.value <= maxValue
      [] value.type = "Range" ->
            value.start >= minValue /\ value.end <= maxValue /\ value.start <= value.end
      [] OTHER -> checkAlgebraic(value)

\* the values (1-based positions + 1) whose bit updateAlgebraicBitmap sets
updateAlgebraicBitmap(expr, minRange, maxRange) ==
    LET parameter == getAlgebraicParameters(expr, minRange, maxRange)
    IN  IF ~parameter.ok THEN {}
        ELSE {v \in minRange..maxRange :
                \E n \in parameter.start..parameter.end : AlgebraicAt(expr, n) = v}

\* Field.cacheParsedNumeric: the bitmap, as the set of i whose bit (i - 1) is set.
\* The bitmap exists (is not null) exactly when there are values.
cacheParsedNumeric(values, minValue, maxValue) ==
    UNION { LET value == values[k] IN
            CASE value.type = "Number" ->
                    IF value.value >= minValue /\ value.value <= maxValue
                    THEN {value.value} ELSE {}
              [] value.type = "Range" ->
                    Max(minValue, value.start)..Min(maxValue, value.end)
              [] OTHER -> updateAlgebraicBitmap(value, 1, maxValue)
          : k \in 1..Len(values) }

\* Field.getActiveParsedNumeric: activeDays, as the set of i with activeDays[i - 1].
\* hasCache: the field overrides cacheValues, so this.cache is the bitmap.
getActiveParsedNumeric(values, minValue, maxValue, hasCache) ==
    IF hasCache /\ Len(values) > 0
    THEN cacheParsedNumeric(values, minValue, maxValue)
    ELSE {i \in 1..maxValue : iterativeParsedValueCheck(values, i, minValue, maxValue)}

\* the value of byte `byteIndex` of the bitmap
BitmapByte(bitmap, byteIndex) ==
    LET bit(b) == IF (byteIndex * 8 + b + 1) \in bitmap THEN 2^b ELSE 0
    IN  bit(0) + bit(1) + bit(2) + bit(3) + bit(4) + bit(5) + bit(6) + bit(7)

-----------------------------------------------------------------------------
(* Fields: evaluate over [startUnix, endUnix] and evaluateTimestamp.       *)
(* Each evaluate below is the body of the method after the                 *)
(* `values.length === 0` return and the computation of shouldMerge.        *)

\* the open run of matching days/months/years a loop carries:
\* open = (rangeStart !== null)
NoRun == [open |-> FALSE, rangeStart |-> 0, lastEnd |-> 0]
Run(s, e) == [open |-> TRUE, rangeStart |-> s, lastEnd |-> e]

RECURSIVE TimeLoop(_, _, _, _, _, _, _)
\* the while loop over days (d) and the for loop over time ranges (k)
TimeLoop(processed, d, k, startUnix, endUnix, shouldMerge, result) ==
    IF d * DayMs > endUnix THEN result
    ELSE IF k > Len(processed)
    THEN TimeLoop(processed, d + 1, 1, startUnix, endUnix, shouldMerge, result)
    ELSE LET rangeStart == d * DayMs + processed[k].start
             rangeEnd   == d * DayMs + processed[k].end
         IN  IF rangeEnd >= startUnix /\ rangeStart <= endUnix
             THEN TimeLoop(processed, d, k + 1, startUnix, endUnix, shouldMerge,
                           PushRange(result, Max(rangeStart, startUnix),
                                     Min(rangeEnd, endUnix), shouldMerge))
             ELSE TimeLoop(processed, d, k + 1, startUnix, endUnix, shouldMerge, result)

TimeFieldEvaluate(values, shouldMerge, startUnix, endUnix) ==
    LET processedTimeRanges == IF shouldMerge THEN getOptimizedRanges(values) ELSE values
    IN  IF processedTimeRanges[1].start = 0 /\ processedTimeRanges[1].end = MaxTimeOfDay
        THEN <<Interval(startUnix, endUnix)>>
        ELSE TimeLoop(processedTimeRanges, DayOf(startUnix), 1,
                      startUnix, endUnix, shouldMerge, <<>>)

TimeFieldEvaluateTimestamp(values, unix) ==
    LET timeOfDay == JsRem(unix, DayMs)
    IN  \E i \in 1..Len(values) : timeOfDay >= values[i].start /\ timeOfDay <= values[i].end

TimeFieldValidateValue(value) ==
    value.start >= 0 /\ value.end <= MaxTimeOfDay /\ value.start < value.end

RECURSIVE WeekDayLoop(_, _, _, _, _, _, _)
WeekDayLoop(activeWeekdays, d, startUnix, endUnix, shouldMerge, run, result) ==
    LET dayStart == d * DayMs
        weekday  == IF getUTCDay(dayStart) = 0 THEN 7 ELSE getUTCDay(dayStart)
        dayEnd   == Min(dayStart + MaxTimeOfDay, endUnix)
        pushed   == Append(result, Interval(run.rangeStart, run.lastEnd))
    IN  IF dayStart > endUnix
        THEN IF run.open
             THEN Append(result, Interval(run.rangeStart, Min(run.lastEnd, endUnix)))
             ELSE result
        ELSE IF weekday \in activeWeekdays
        THEN IF ~run.open
             THEN WeekDayLoop(activeWeekdays, d + 1, startUnix, endUnix, shouldMerge,
                              Run(Max(dayStart, startUnix), dayEnd), result)
             ELSE IF shouldMerge /\ dayStart <= run.lastEnd + 1
             THEN WeekDayLoop(activeWeekdays, d + 1, startUnix, endUnix, shouldMerge,
                              Run(run.rangeStart, dayEnd), result)
             ELSE WeekDayLoop(activeWeekdays, d + 1, startUnix, endUnix, shouldMerge,
                              Run(Max(dayStart, startUnix), dayEnd), pushed)
        ELSE IF run.open
        THEN WeekDayLoop(activeWeekdays, d + 1, startUnix, endUnix, shouldMerge, NoRun, pushed)
        ELSE WeekDayLoop(activeWeekdays, d + 1, startUnix, endUnix, shouldMerge, run, result)

WeekDayFieldEvaluate(values, shouldMerge, startUnix, endUnix) ==
    IF BitmapByte(cacheParsedNumeric(values, 1, 7), 0) = 127
    THEN <<Interval(startUnix, endUnix)>>
    ELSE WeekDayLoop(getActiveParsedNumeric(values, 1, 7, TRUE), DayOf(startUnix),
                     startUnix, endUnix, shouldMerge, NoRun, <<>>)

WeekDayFieldEvaluateTimestamp(values, unix) ==
    LET weekday == IF getUTCDay(unix) = 0 THEN 7 ELSE getUTCDay(unix)
    IN  iterativeParsedValueCheck(values, weekday, 1, 7)

RECURSIVE MonthDayLoop(_, _, _, _, _, _, _)
MonthDayLoop(activeDays, d, startUnix, endUnix, shouldMerge, run, result) ==
    LET dayStart == d * DayMs
        day      == getUTCDate(dayStart)
        dayEnd   == Min(dayStart + MaxTimeOfDay, endUnix)
        pushed   == Append(result, Interval(run.rangeStart, run.lastEnd))
    IN  IF dayStart > endUnix
        THEN IF shouldMerge /\ run.open
             THEN Append(result, Interval(run.rangeStart, Min(run.lastEnd, endUnix)))
             ELSE result
        ELSE IF day \in activeDays
        THEN IF ~shouldMerge
             THEN MonthDayLoop(activeDays, d + 1, startUnix, endUnix, shouldMerge, run,
                               Append(result, Interval(Max(dayStart, startUnix), dayEnd)))
             ELSE IF ~run.open
             THEN MonthDayLoop(activeDays, d + 1, startUnix, endUnix, shouldMerge,
                               Run(Max(dayStart, startUnix), dayEnd), result)
             ELSE IF dayStart <= run.lastEnd + 1
             THEN MonthDayLoop(activeDays, d + 1, startUnix, endUnix, shouldMerge,
                               Run(run.rangeStart, dayEnd), result)
             ELSE MonthDayLoop(activeDays, d + 1, startUnix, endUnix, shouldMerge,
                               Run(Max(dayStart, startUnix), dayEnd), pushed)
        ELSE IF shouldMerge /\ run.open
        THEN MonthDayLoop(activeDays, d + 1, startUnix, endUnix, shouldMerge, NoRun, pushed)
        ELSE MonthDayLoop(activeDays, d + 1, startUnix, endUnix, shouldMerge, run, result)

MonthDayFieldEvaluate(values, shouldMerge, startUnix, endUnix) ==
    LET bitmap == cacheParsedNumeric(values, 1, 31)
    IN  IF /\ BitmapByte(bitmap, 0) = 255
           /\ BitmapByte(bitmap, 1) = 255
           /\ BitmapByte(bitmap, 2) = 255
           /\ BitmapByte(bitmap, 3) % 128 = 127
        THEN <<Interval(startUnix, endUnix)>>
        ELSE MonthDayLoop(getActiveParsedNumeric(values, 1, 31, TRUE), DayOf(startUnix),
                          startUnix, endUnix, shouldMerge, NoRun, <<>>)

MonthDayFieldEvaluateTimestamp(values, unix) ==
    iterativeParsedValueCheck(values, getUTCDate(unix), 1, 31)

RECURSIVE MonthLoop(_, _, _, _, _, _, _)
MonthLoop(activeMonths, monthIdx, startUnix, endUnix, shouldMerge, run, result) ==
    LET year       == monthIdx \div 12
        month      == monthIdx % 12
        nextYear   == (monthIdx + 1) \div 12
        nextMonth  == (monthIdx + 1) % 12
        \* Math.max(Date.UTC(year, month, 1), startUnix)
        monthStart == MaxUTC(DaysFromCivil(year, month + 1, 1), 0, startUnix)
        \* Math.min(Date.UTC(year, month, <last day>, 23, 59, 59, 999), endUnix)
        monthEnd   == MinUTC(DaysFromCivil(nextYear, nextMonth + 1, 1) - 1, MaxTimeOfDay, endUnix)
        endMonthIdx == getUTCFullYear(endUnix) * 12 + getUTCMonth(endUnix)
    IN  IF monthIdx > endMonthIdx
        THEN IF shouldMerge /\ run.open
             THEN Append(result, Interval(run.rangeStart, run.lastEnd))
             ELSE result
        ELSE IF monthEnd < startUnix \/ monthStart > endUnix
        THEN MonthLoop(activeMonths, monthIdx + 1, startUnix, endUnix, shouldMerge, run, result)
        ELSE IF (month + 1) \in activeMonths
        THEN IF shouldMerge
             THEN MonthLoop(activeMonths, monthIdx + 1, startUnix, endUnix, shouldMerge,
                            Run(IF run.open THEN run.rangeStart ELSE monthStart, monthEnd),
                            result)
             ELSE MonthLoop(activeMonths, monthIdx + 1, startUnix, endUnix, shouldMerge, run,
                            Append(result, Interval(monthStart, monthEnd)))
        ELSE IF shouldMerge /\ run.open
        THEN MonthLoop(activeMonths, monthIdx + 1, startUnix, endUnix, shouldMerge, NoRun,
                       Append(result, Interval(run.rangeStart, run.lastEnd)))
        ELSE MonthLoop(activeMonths, monthIdx + 1, startUnix, endUnix, shouldMerge, run, result)

MonthFieldEvaluate(values, shouldMerge, startUnix, endUnix) ==
    \* cache[0] === 0xFFF: a byte compared with 4095
    IF BitmapByte(cacheParsedNumeric(values, 1, 12), 0) = 4095
    THEN <<Interval(startUnix, endUnix)>>
    ELSE MonthLoop(getActiveParsedNumeric(values, 1, 12, TRUE),
                   getUTCFullYear(startUnix) * 12 + getUTCMonth(startUnix),
                   startUnix, endUnix, shouldMerge, NoRun, <<>>)

MonthFieldEvaluateTimestamp(values, unix) ==
    iterativeParsedValueCheck(values, getUTCMonth(unix) + 1, 1, 12)

RECURSIVE YearLoop(_, _, _, _, _, _, _)
YearLoop(values, year, startUnix, endUnix, shouldMerge, run, result) ==
    LET isYearActive == iterativeParsedValueCheck(values, year, 1, YearMax)
        \* Math.max(Date.UTC(year, 0, 1), startUnix)
        yearStart == MaxUTC(DaysFromCivil(year, 1, 1), 0, startUnix)
        \* Math.min(Date.UTC(year, 11, 31, 23, 59, 59, 999), endUnix)
        yearEnd   == MinUTC(DaysFromCivil(year, 12, 31), MaxTimeOfDay, endUnix)
    IN  IF year > getUTCFullYear(endUnix)
        THEN IF shouldMerge /\ run.open
             THEN Append(result, Interval(run.rangeStart, run.lastEnd))
             ELSE result
        ELSE IF isYearActive
        THEN IF shouldMerge
             THEN YearLoop(values, year + 1, startUnix, endUnix, shouldMerge,
                           Run(IF run.open THEN run.rangeStart ELSE yearStart, yearEnd), result)
             ELSE YearLoop(values, year + 1, startUnix, endUnix, shouldMerge, run,
                           Append(result, Interval(yearStart, yearEnd)))
        ELSE IF shouldMerge /\ run.open
        THEN YearLoop(values, year + 1, startUnix, endUnix, shouldMerge, NoRun,
                      Append(result, Interval(run.rangeStart, run.lastEnd)))
        ELSE YearLoop(values, year + 1, startUnix, endUnix, shouldMerge, run, result)

YearFieldEvaluate(values, shouldMerge, startUnix, endUnix) ==
    YearLoop(values, getUTCFullYear(startUnix), startUnix, endUnix, shouldMerge, NoRun, <<>>)

\* new Date(unix).getFullYear() is the year in local time (offset from UTC)
YearFieldEvaluateTimestamp(values, unix, offset) ==
    LET year == getFullYear(unix, offset)
    IN  iterativeParsedValueCheck(values, year, year - 1, year + 1)

\* range => ({start: max(startUnix, range.start), end: min(endUnix, range.end)})
ClipAll(ranges, startUnix, endUnix) ==
    [i \in 1..Len(ranges) |->
        Interval(Max(startUnix, ranges[i].start), Min(endUnix, ranges[i].end))]

DateFieldEvaluate(values, shouldMerge, startUnix, endUnix) ==
    LET processedRanges ==
            IF shouldMerge THEN getOptimizedRanges(values) ELSE SortByStart(values)
        startIndex == findFirstIntersectingIndex(processedRanges, startUnix)
        endIndex   == findLastIntersectingIndex(processedRanges, endUnix)
    IN  IF \/ processedRanges[1].start > endUnix
           \/ processedRanges[Len(processedRanges)].end < startUnix
        THEN <<>>
        ELSE IF startIndex = -1 THEN <<>>
        ELSE IF endIndex = -1 \/ endIndex < startIndex THEN <<>>
        ELSE ClipAll(SubSeq(processedRanges, startIndex + 1, endIndex + 1), startUnix, endUnix)

DateFieldEvaluateTimestamp(values, unix) ==
    \E i \in 1..Len(values) : unix >= values[i].start /\ unix <= values[i].end

\* the start is a UTC midnight and the end a UTC 23:59:59.999
DateFieldValidateValue(value) ==
    /\ value.start <= value.end
    /\ value.start % DayMs = 0
    /\ value.end % DayMs = MaxTimeOfDay

DateTimeFieldEvaluate(values, shouldMerge, startUnix, endUnix) ==
    LET processedRanges ==
            IF shouldMerge THEN getOptimizedRanges(values) ELSE SortByStart(values)
        filtered == SelectSeq(processedRanges,
                              LAMBDA r : ~(r.end < startUnix \/ r.start > endUnix))
    IN  IF \/ processedRanges[1].start > endUnix
           \/ processedRanges[Len(processedRanges)].end < startUnix
        THEN <<>>
        ELSE ClipAll(filtered, startUnix, endUnix)

DateTimeFieldEvaluateTimestamp(values, unix) ==
    \E i \in 1..Len(values) : unix >= values[i].start /\ unix <= values[i].end

DateTimeFieldValidateValue(value) == value.start <= value.end

-----------------------------------------------------------------------------
(* Sweep-line utilities *)

RECURSIVE RangeEvents(_, _, _)
\* block.forEach(range => push START at range.start, END at range.end + 1)
RangeEvents(block, blockIndex, k) ==
    IF k > Len(block) THEN <<>>
    ELSE <<[time |-> block[k].start, type |-> "start", blockIndex |-> blockIndex],
           [time |-> block[k].end + 1, type |-> "end", blockIndex |-> blockIndex]>>
         \o RangeEvents(block, blockIndex, k + 1)

RECURSIVE BlockEvents(_, _)
BlockEvents(blocks, b) ==
    IF b > Len(blocks) THEN <<>>
    ELSE RangeEvents(blocks[b], b - 1, 1) \o BlockEvents(blocks, b + 1)

\* The comparator orders events by time and, at one time, START before END.
\* On two events of one type at one time it is not consistent, so their
\* relative order is the engine's; the sweeps below do not depend on it.
EventBefore(a, b) ==
    \/ a.time < b.time
    \/ a.time = b.time /\ a.type = "start" /\ b.type = "end"

RECURSIVE InsertEvent(_, _)
InsertEvent(sorted, x) ==
    IF sorted = <<>> THEN <<x>>
    ELSE IF EventBefore(x, sorted[Len(sorted)])
    THEN Append(InsertEvent(SubSeq(sorted, 1, Len(sorted) - 1), x), sorted[Len(sorted)])
    ELSE Append(sorted, x)

RECURSIVE SortEvents(_)
SortEvents(events) ==
    IF events = <<>> THEN <<>>
    ELSE InsertEvent(SortEvents(SubSeq(events, 1, Len(events) - 1)), events[Len(events)])

\* intersectionStart / unionStart: [set |-> FALSE] is null
NoStart == [set |-> FALSE, time |-> 0]
StartAt(t) == [set |-> TRUE, time |-> t]

\* the push-or-extend step shared by the three sweeps
SweepPush(result, s, e, shouldMerge) ==
    IF shouldMerge /\ Len(result) > 0
    THEN IF s <= result[Len(result)].end + 1
         THEN [result EXCEPT ![Len(result)].end = Max(@, e)]
         ELSE Append(result, Interval(s, e))
    ELSE Append(result, Interval(s, e))

RECURSIVE IntersectionSweep(_, _, _, _, _, _, _)
IntersectionSweep(events, i, n, shouldMerge, activeBlocks, intersectionStart, result) ==
    IF i > Len(events) THEN result
    ELSE LET event == events[i] IN
         IF event.type = "start"
         THEN LET added == activeBlocks \cup {event.blockIndex} IN
              IntersectionSweep(events, i + 1, n, shouldMerge, added,
                  IF Cardinality(added) = n /\ ~intersectionStart.set
                  THEN StartAt(event.time) ELSE intersectionStart,
                  result)
         ELSE IF Cardinality(activeBlocks) = n /\ intersectionStart.set
         THEN IntersectionSweep(events, i + 1, n, shouldMerge,
                  activeBlocks \ {event.blockIndex}, NoStart,
                  IF intersectionStart.time <= event.time - 1
                  THEN SweepPush(result, intersectionStart.time, event.time - 1, shouldMerge)
                  ELSE result)
         ELSE IntersectionSweep(events, i + 1, n, shouldMerge,
                  activeBlocks \ {event.blockIndex}, intersectionStart, result)

sweepLineIntersection(blocks, shouldMerge) ==
    IF Len(blocks) = 0 THEN <<>>
    ELSE IF \E b \in 1..Len(blocks) : Len(blocks[b]) = 0 THEN <<>>
    ELSE IntersectionSweep(SortEvents(BlockEvents(blocks, 1)), 1, Len(blocks),
                           shouldMerge, {}, NoStart, <<>>)

RECURSIVE UnionSweep(_, _, _, _, _, _)
UnionSweep(events, i, shouldMerge, activeCount, unionStart, result) ==
    IF i > Len(events) THEN result
    ELSE LET event == events[i] IN
         IF event.type = "start"
         THEN UnionSweep(events, i + 1, shouldMerge, activeCount + 1,
                  IF activeCount = 0 THEN StartAt(event.time) ELSE unionStart, result)
         ELSE IF activeCount - 1 = 0 /\ unionStart.set
         THEN UnionSweep(events, i + 1, shouldMerge, activeCount - 1, NoStart,
                  IF unionStart.time <= event.time - 1
                  THEN SweepPush(result, unionStart.time, event.time - 1, shouldMerge)
                  ELSE result)
         ELSE UnionSweep(events, i + 1, shouldMerge, activeCount - 1, unionStart, result)

sweepLineUnion(blocks, shouldMerge) ==
    IF Len(blocks) = 0 THEN <<>>
    ELSE UnionSweep(SortEvents(BlockEvents(blocks, 1)), 1, shouldMerge, 0, NoStart, <<>>)

RECURSIVE ComplementSweep(_, _, _, _, _, _)
ComplementSweep(block, k, domainEnd, shouldMerge, currentPos, result) ==
    IF k > Len(block)
    THEN IF currentPos <= domainEnd
         THEN SweepPush(result, currentPos, domainEnd, shouldMerge)
         ELSE result
    ELSE ComplementSweep(block, k + 1, domainEnd, shouldMerge,
             Max(currentPos, block[k].end + 1),
             IF currentPos < block[k].start
             THEN SweepPush(result, currentPos, block[k].start - 1, shouldMerge)
             ELSE result)

sweepLineComplement(block, domainStart, domainEnd, shouldMerge) ==
    IF Len(block) = 0 THEN <<Interval(domainStart, domainEnd)>>
    ELSE ComplementSweep(block, 1, domainEnd, shouldMerge, domainStart, <<>>)

-----------------------------------------------------------------------------
(* Blocks.  A block is a record: type (the BlockType), merge (its          *)
(* MergeState), values (a field's values), blocks (an And/Or's children, a *)
(* Not's child as a list of at most one), id (a Reference's id).           *)

FieldTypes == {"FieldTime", "FieldWeekDay", "FieldMonthDay", "FieldMonth",
               "FieldYear", "FieldDate", "FieldDateTime"}

Field(type, values, merge) ==
    [type |-> type, merge |-> merge, values |-> values, blocks |-> <<>>, id |-> ""]
Condition(type, blocks, merge) ==
    [type |-> type, merge |-> merge, values |-> <<>>, blocks |-> blocks, id |-> ""]
Reference(id, merge) ==
    [type |-> "Reference", merge |-> merge, values |-> <<>>, blocks |-> <<>>, id |-> id]

\* enum BlockGroup { Field, Condition, Reference }
blockGroup(block) ==
    IF block.type \in FieldTypes THEN 0
    ELSE IF block.type = "Reference" THEN 2 ELSE 1

\* the children in the order they were added
KeepOrder(blocks) == blocks

\* blocks.toSorted((b1, b2) => b1.blockGroup - b2.blockGroup): stable
toSortedByGroup(blocks) ==
    SelectSeq(blocks, LAMBDA b : blockGroup(b) = 0)
    \o SelectSeq(blocks, LAMBDA b : blockGroup(b) = 1)
    \o SelectSeq(blocks, LAMBDA b : blockGroup(b) = 2)

\* Schedule.expressions.get(id) when the id is not a key
NoExpr == [block |-> Reference("", "DEFAULT"), name |-> "<none>"]

\* schedule?: ISchedule not given
NoSchedule == [id \in {} |-> NoExpr]

\* Result<T, Error>: success(value), fail(error); "throw" is an exception
\* leaving the call.  calls: the child evaluate calls made, in order, each
\* with the caller's type and merge state, the merge argument the caller
\* received, and the merge argument it passed on.
Success(value, calls) == [kind |-> "success", value |-> value, error |-> "", calls |-> calls]
\* a failure that is lost: the call succeeds with the empty list
FailureSwallowed(error, calls) == [kind |-> "success", value |-> <<>>, error |-> "", calls |-> calls]
Fail(error, calls) == [kind |-> "fail", value |-> <<>>, error |-> error, calls |-> calls]
Throw(error, calls) == [kind |-> "throw", value |-> <<>>, error |-> error, calls |-> calls]

ChildCall(parent, received, passed, child) ==
    [parent |-> parent.type, state |-> parent.merge, received |-> received,
     passed |-> passed, child |-> child.type, childState |-> child.merge]

\* the evaluate of a field with at least one value
FieldEvaluate(block, shouldMerge, startUnix, endUnix) ==
    CASE block.type = "FieldTime" ->
            TimeFieldEvaluate(block.values, shouldMerge, startUnix, endUnix)
      [] block.type = "FieldWeekDay" ->
            WeekDayFieldEvaluate(block.values, shouldMerge, startUnix, endUnix)
      [] block.type = "FieldMonthDay" ->
            MonthDayFieldEvaluate(block.values, shouldMerge, startUnix, endUnix)
      [] block.type = "FieldMonth" ->
            MonthFieldEvaluate(block.values, shouldMerge, startUnix, endUnix)
      [] block.type = "FieldYear" ->
            YearFieldEvaluate(block.values, shouldMerge, startUnix, endUnix)
      [] block.type = "FieldDate" ->
            DateFieldEvaluate(block.values, shouldMerge, startUnix, endUnix)
      [] OTHER ->
            DateTimeFieldEvaluate(block.values, shouldMerge, startUnix, endUnix)

RECURSIVE Evaluate(_, _, _, _, _, _)
RECURSIVE EvaluateBlocks(_, _, _, _, _, _, _, _, _, _)

\* The for loop of AndOperator.evaluate / OrBlock.evaluate over the sorted
\* children.  It ends with kind "results" (the loop ran to its end, value is
\* blockResults) or with the Result the loop returned early.
EvaluateBlocks(parent, sorted, k, startUnix, endUnix, schedule, merge, fuel, blockResults, calls) ==
    IF k > Len(sorted)
    THEN [kind |-> "results", value |-> blockResults, error |-> "", calls |-> calls]
    ELSE LET result == Evaluate(sorted[k], startUnix, endUnix, schedule, merge, fuel)
             after  == calls \o <<ChildCall(parent, merge, merge, sorted[k])>> \o result.calls
         IN  IF result.kind # "success" THEN [result EXCEPT !.calls = after]
             ELSE IF parent.type = "ConditionAnd" /\ Len(result.value) = 0
             THEN Success(<<>>, after)
             ELSE EvaluateBlocks(parent, sorted, k + 1, startUnix, endUnix, schedule,
                      merge, fuel,
                      IF Len(result.value) > 0 THEN Append(blockResults, result.value)
                      ELSE blockResults,
                      after)

\* block.evaluate(startUnix, endUnix, schedule, merge).  fuel bounds the
\* depth of Reference resolution: when it runs out the references form a
\* cycle and the call stack overflows (a RangeError is thrown).
Evaluate(block, startUnix, endUnix, schedule, merge, fuel) ==
    LET shouldMerge == ShouldMerge(block.merge, merge) IN
    CASE block.type \in FieldTypes ->
            IF Len(block.values) = 0 THEN Success(<<>>, <<>>)
            ELSE Success(FieldEvaluate(block, shouldMerge, startUnix, endUnix), <<>>)
      [] block.type \in {"ConditionAnd", "ConditionOr"} ->
            IF Len(block.blocks) = 0 THEN Success(<<>>, <<>>)
            ELSE LET loop == EvaluateBlocks(block, toSortedByGroup(block.blocks), 1,
                                 startUnix, endUnix, schedule, merge, fuel, <<>>, <<>>)
                 IN  IF loop.kind # "results" THEN loop
                     ELSE IF block.type = "ConditionAnd"
                     THEN Success(sweepLineIntersection(loop.value, shouldMerge), loop.calls)
                     ELSE IF Len(loop.value) = 0 THEN Success(<<>>, loop.calls)
                     ELSE Success(sweepLineUnion(loop.value, shouldMerge), loop.calls)
      [] block.type = "ConditionNot" ->
            IF Len(block.blocks) = 0 THEN Success(<<Interval(startUnix, endUnix)>>, <<>>)
            ELSE LET blockResult ==
                         Evaluate(block.blocks[1], startUnix, endUnix, schedule, merge, fuel)
                     calls == <<ChildCall(block, merge, merge, block.blocks[1])>>
                              \o blockResult.calls
                 IN  IF blockResult.kind # "success" THEN [blockResult EXCEPT !.calls = calls]
                     ELSE IF Len(blockResult.value) = 0
                     THEN Success(<<Interval(startUnix, endUnix)>>, calls)
                     ELSE Success(sweepLineComplement(blockResult.value, startUnix, endUnix,
                                                      shouldMerge), calls)
      [] OTHER ->
            IF schedule = NoSchedule THEN Fail("ReferenceError", <<>>)
            ELSE
            LET referenced == schedule[block.id] IN
            IF referenced = NoExpr THEN Fail("ReferenceError", <<>>)
            ELSE IF fuel = 0 THEN Throw("RangeError", <<>>)
            ELSE LET result == Evaluate(referenced.block, startUnix, endUnix, schedule,
                                        BoolArg(shouldMerge), fuel - 1)
                 IN  [result EXCEPT !.calls =
                         <<ChildCall(block, merge, BoolArg(shouldMerge), referenced.block)>>
                         \o @]

\* Result<boolean, Error>
SuccessB(value) == [kind |-> "success", value |-> value, error |-> ""]
\* a failure raised as an exception instead of being returned
FailureThrown(error) == [kind |-> "throw", value |-> FALSE, error |-> error]
FailB(error) == [kind |-> "fail", value |-> FALSE, error |-> error]
ThrowB(error) == [kind |-> "throw", value |-> FALSE, error |-> error]

\* the evaluateTimestamp of a field with at least one value
FieldEvaluateTimestamp(block, unix, offset) ==
    CASE block.type = "FieldTime" -> TimeFieldEvaluateTimestamp(block.values, unix)
      [] block.type = "FieldWeekDay" -> WeekDayFieldEvaluateTimestamp(block.values, unix)
      [] block.type = "FieldMonthDay" -> MonthDayFieldEvaluateTimestamp(block.values, unix)
      [] block.type = "FieldMonth" -> MonthFieldEvaluateTimestamp(block.values, unix)
      [] block.type = "FieldYear" -> YearFieldEvaluateTimestamp(block.values, unix, offset)
      [] block.type = "FieldDate" -> DateFieldEvaluateTimestamp(block.values, unix)
      [] OTHER -> DateTimeFieldEvaluateTimestamp(block.values, unix)

RECURSIVE EvaluateTimestamp(_, _, _, _, _)
RECURSIVE EvaluateTimestampBlocks(_, _, _, _, _, _, _)

\* The for loop of AndOperator.evaluateTimestamp (stop on a false child) and
\* of OrBlock.evaluateTimestamp (stop on a true child).
EvaluateTimestampBlocks(parent, blocks, k, unix, schedule, offset, fuel) ==
    IF k > Len(blocks) THEN SuccessB(parent.type = "ConditionAnd")
    ELSE LET result == EvaluateTimestamp(blocks[k], unix, schedule, offset, fuel) IN
         IF result.kind # "success" THEN result
         ELSE IF parent.type = "ConditionAnd" /\ ~result.value THEN SuccessB(FALSE)
         ELSE IF parent.type = "ConditionOr" /\ result.value THEN SuccessB(TRUE)
         ELSE EvaluateTimestampBlocks(parent, blocks, k + 1, unix, schedule, offset, fuel)

\* block.evaluateTimestamp(unix, schedule); offset is the local time zone's
EvaluateTimestamp(block, unix, schedule, offset, fuel) ==
    CASE block.type \in FieldTypes ->
            IF Len(block.values) = 0 THEN SuccessB(FALSE)
            ELSE SuccessB(FieldEvaluateTimestamp(block, unix, offset))
      [] block.type = "ConditionAnd" ->
            IF Len(block.blocks) = 0 THEN SuccessB(TRUE)
            ELSE EvaluateTimestampBlocks(block, toSortedByGroup(block.blocks), 1,
                                         unix, schedule, offset, fuel)
      [] block.type = "ConditionOr" ->
            IF Len(block.blocks) = 0 THEN SuccessB(FALSE)
            ELSE EvaluateTimestampBlocks(block, block.blocks, 1, unix, schedule, offset, fuel)
      [] block.type = "ConditionNot" ->
            IF Len(block.blocks) = 0 THEN SuccessB(TRUE)
            ELSE LET blockResult ==
                         EvaluateTimestamp(block.blocks[1], unix, schedule, offset, fuel)
                 IN  IF blockResult.kind # "success" THEN blockResult
                     ELSE SuccessB(~blockResult.value)
      [] OTHER ->
            IF schedule = NoSchedule THEN FailB("ReferenceError")
            ELSE
            LET referenced == schedule[block.id] IN
            IF referenced = NoExpr THEN FailB("ReferenceError")
            ELSE IF fuel = 0 THEN ThrowB("RangeError")
            ELSE EvaluateTimestamp(referenced.block, unix, schedule, offset, fuel - 1)

RECURSIVE getHash(_)
\* The string the hash is computed from: class name, merge state, and the
\* values / the children's hashes / the id.  generateHash is a function of
\* that string, so equal strings give equal hashes; the hash is kept as the
\* string's content.
getHash(block) ==
    CASE block.type \in FieldTypes -> <<block.type, block.merge, block.values>>
      [] block.type = "Reference" -> <<block.type, block.merge, block.id>>
      [] OTHER -> <<block.type, block.merge,
                    [i \in 1..Len(block.blocks) |-> getHash(block.blocks[i])]>>

-----------------------------------------------------------------------------
(* ScheduleCache.  The Map is the list of its entries in insertion order;  *)
(* an entry carries its key.                                               *)

\* `${block.getHash()}_${startUnix}_${endUnix}`
generateKey(block, startUnix, endUnix) == <<getHash(block), startUnix, endUnix>>

\* key.startsWith(`${blockHash}_`)
KeyHasHash(key, blockHash) == key[1] = blockHash

NoKey == <<>>

\* position of the key in the Map, 0 when absent
KeyIndex(entries, key) ==
    IF \E i \in 1..Len(entries) : entries[i].key = key
    THEN CHOOSE i \in 1..Len(entries) : entries[i].key = key
    ELSE 0

\* Map.delete of the entry at position i
DeleteAt(entries, i) == SubSeq(entries, 1, i - 1) \o SubSeq(entries, i + 1, Len(entries))

canExpand(cached, newStart, newEnd) ==
    newStart <= cached.startUnix /\ newEnd >= cached.endUnix

canExtract(cached, newStart, newEnd) ==
    newStart >= cached.startUnix /\ newEnd <= cached.endUnix

RECURSIVE ExtractLoop(_, _, _, _, _, _)
ExtractLoop(ranges, i, endIndex, newStart, newEnd, result) ==
    IF i > endIndex THEN result
    ELSE LET intersectionStart == Max(ranges[i + 1].start, newStart)
             intersectionEnd   == Min(ranges[i + 1].end, newEnd)
         IN  ExtractLoop(ranges, i + 1, endIndex, newStart, newEnd,
                 IF intersectionStart <= intersectionEnd
                 THEN Append(result, Interval(intersectionStart, intersectionEnd))
                 ELSE result)

extractSubset(ranges, newStart, newEnd) ==
    IF Len(ranges) = 0 THEN <<>>
    ELSE LET startIndex == findFirstIntersectingIndex(ranges, newStart)
             endIndex   == findLastIntersectingIndex(ranges, newEnd)
         IN  IF startIndex = -1 THEN <<>>
             ELSE IF endIndex = -1 \/ endIndex < startIndex THEN <<>>
             ELSE ExtractLoop(ranges, startIndex, endIndex, newStart, newEnd, <<>>)

\* ScheduleCache.get at time `time` (the value of Date.now()).
\* hit: "exact" (the stored array itself is returned), "subset" (a new
\* array), "miss" (null).  at: the position of the entry that was hit.
cacheGet(entries, block, startUnix, endUnix, time) ==
    LET exactKey  == generateKey(block, startUnix, endUnix)
        exact     == KeyIndex(entries, exactKey)
        blockHash == getHash(block)
        Usable(i) == /\ KeyHasHash(entries[i].key, blockHash)
                     /\ canExtract(entries[i], startUnix, endUnix)
    IN  IF exact # 0
        THEN [hit |-> "exact", at |-> exact, ranges |-> entries[exact].ranges,
              entries |-> [entries EXCEPT ![exact].lastAccessed = time]]
        ELSE IF \E i \in 1..Len(entries) : Usable(i)
        THEN LET first == CHOOSE i \in 1..Len(entries) :
                              Usable(i) /\ \A j \in 1..(i - 1) : ~Usable(j)
             IN  [hit |-> "subset", at |-> first,
                  ranges |-> extractSubset(entries[first].ranges, startUnix, endUnix),
                  entries |-> [entries EXCEPT ![first].lastAccessed = time]]
        ELSE [hit |-> "miss", at |-> 0, ranges |-> <<>>, entries |-> entries]

\* an evictLRU that never deletes anything
NeverEvict(entries, maxSize) == 0

\* ScheduleCache.evictLRU: the position it deletes, 0 when it deletes nothing.
\* The scan keeps the first entry whose lastAccessed is below every earlier one.
evictLRU(entries, maxSize) ==
    IF Len(entries) < maxSize \/ Len(entries) = 0 THEN 0
    ELSE CHOOSE i \in 1..Len(entries) :
            /\ \A j \in 1..Len(entries) : entries[i].lastAccessed <= entries[j].lastAccessed
            /\ \A j \in 1..(i - 1) : entries[j].lastAccessed > entries[i].lastAccessed

\* ScheduleCache.set at time `time`.  expanded / victim: the positions (in
\* the Map as it was when each deletion ran) of the narrower entry dropped
\* and of the entry evicted, 0 for none.
cacheSet(entries, maxSize, block, startUnix, endUnix, ranges, time) ==
    LET key       == generateKey(block, startUnix, endUnix)
        blockHash == getHash(block)
        Narrower(i) == /\ KeyHasHash(entries[i].key, blockHash)
                       /\ canExpand(entries[i], startUnix, endUnix)
        expanded  == IF \E i \in 1..Len(entries) : Narrower(i)
                     THEN CHOOSE i \in 1..Len(entries) :
                              Narrower(i) /\ \A j \in 1..(i - 1) : ~Narrower(j)
                     ELSE 0
        afterExpand == IF expanded = 0 THEN entries ELSE DeleteAt(entries, expanded)
        victim    == evictLRU(afterExpand, maxSize)
        afterEvict == IF victim = 0 THEN afterExpand ELSE DeleteAt(afterExpand, victim)
        \* stored (ghost): the list as it was when set copied it
        entry     == [key |-> key, ranges |-> ranges, startUnix |-> startUnix,
                      endUnix |-> endUnix, lastAccessed |-> time, stored |-> ranges]
        at        == KeyIndex(afterEvict, key)
    IN  [expanded |-> expanded, victim |-> victim,
         beforeEvict |-> afterExpand,
         entries |-> IF at = 0 THEN Append(afterEvict, entry)
                     ELSE [afterEvict EXCEPT ![at] = entry]]

-----------------------------------------------------------------------------
(* The inputs explored *)

\* most values in a Date field (its slicing by binary search needs four
\* values to go wrong)
MaxDateVals == 4
\* most children of an And / Or
MaxChildren == 2

Days == (-MaxDay)..MaxDay
Noon == 12 * HourMs

\* all lists of at most n elements of S
SeqsUpTo(S, n) == UNION {[1..k -> S] : k \in 0..n}

\* domain bounds: starts at midnight or noon, ends just before noon or midnight
Starts == {d * DayMs + o : d \in Days, o \in {0, Noon}}
Ends == {d * DayMs + o : d \in Days, o \in {Noon - 1, MaxTimeOfDay}}
Domains == {dom \in Starts \X Ends : dom[1] <= dom[2]}

\* timestamps handed to evaluateTimestamp
Probes == {d * DayMs + o : d \in Days, o \in {0, 6 * HourMs, Noon, MaxTimeOfDay}}

TimeValues ==
    {Interval(0, MaxTimeOfDay), Interval(0, Noon - 1), Interval(Noon, MaxTimeOfDay),
     Interval(6 * HourMs, 18 * HourMs)}

\* 1969-12-31 was a Wednesday (3), 1970-01-01 a Thursday (4)
WeekDayValues ==
    {NumberValue(4), RangeValue(3, 4), RangeValue(1, 7), AlgebraicValue(2, "+", 1)}

MonthDayValues ==
    {NumberValue(31), RangeValue(1, 2), RangeValue(1, 31), AlgebraicValue(15, "+", 1)}

MonthValues ==
    {NumberValue(1), NumberValue(12), RangeValue(1, 12), AlgebraicValue(11, "+", 1)}

YearValues ==
    {NumberValue(1969), NumberValue(1970), RangeValue(1969, 1970),
     AlgebraicValue(1971, "-", 1)}

\* whole days: all explored days, the epoch day, the last explored day
DateValues ==
    {Interval((-MaxDay) * DayMs, MaxDay * DayMs + MaxTimeOfDay),
     Interval(0, MaxTimeOfDay),
     Interval(MaxDay * DayMs, MaxDay * DayMs + MaxTimeOfDay)}

DateTimeValues ==
    {Interval(-Noon, Noon - 1), Interval(0, 6 * HourMs), Interval(Noon, DayMs + 6 * HourMs),
     Interval(0, 0)}

Ids == {"a", "b"}

\* the deepest chain of references a registry without a cycle allows
MaxDepth == Cardinality(Ids) + 1

FieldBlocks ==
    UNION {
      {Field("FieldTime", v, m) : v \in SeqsUpTo(TimeValues, MaxVals), m \in MergeStates},
      {Field("FieldWeekDay", v, m) : v \in SeqsUpTo(WeekDayValues, MaxVals), m \in MergeStates},
      {Field("FieldMonthDay", v, m) : v \in SeqsUpTo(MonthDayValues, MaxVals), m \in MergeStates},
      {Field("FieldMonth", v, m) : v \in SeqsUpTo(MonthValues, MaxVals), m \in MergeStates},
      {Field("FieldYear", v, m) : v \in SeqsUpTo(YearValues, MaxVals), m \in MergeStates},
      {Field("FieldDate", v, m) : v \in SeqsUpTo(DateValues, MaxDateVals), m \in MergeStates},
      {Field("FieldDateTime", v, m) : v \in SeqsUpTo(DateTimeValues, MaxVals), m \in MergeStates}
    }

\* the blocks used as children of the conditions explored
Atoms ==
    {Field("FieldTime", <<Interval(0, Noon - 1), Interval(Noon, MaxTimeOfDay)>>, "DEFAULT"),
     Field("FieldTime", <<Interval(6 * HourMs, 18 * HourMs), Interval(0, Noon - 1)>>,
           "EXPLICIT_OFF"),
     Field("FieldTime", <<>>, "DEFAULT"),
     Field("FieldWeekDay", <<RangeValue(3, 4)>>, "DEFAULT"),
     Field("FieldDateTime", <<Interval(-Noon, Noon - 1)>>, "EXPLICIT_ON"),
     Condition("ConditionNot", <<>>, "DEFAULT"),
     Condition("ConditionOr",
               <<Field("FieldTime", <<Interval(0, Noon - 1)>>, "DEFAULT"),
                 Field("FieldTime", <<Interval(Noon, MaxTimeOfDay)>>, "DEFAULT")>>,
               "DEFAULT"),
     Reference("a", "DEFAULT")}

ConditionBlocks ==
    UNION {
      {Condition("ConditionAnd", b, m) : b \in SeqsUpTo(Atoms, MaxChildren), m \in MergeStates},
      {Condition("ConditionOr", b, m) : b \in SeqsUpTo(Atoms, MaxChildren), m \in MergeStates},
      {Condition("ConditionNot", b, m) : b \in SeqsUpTo(Atoms, 1), m \in MergeStates}
    }

ReferenceBlocks == {Reference(id, m) : id \in Ids, m \in MergeStates}

Blocks == FieldBlocks \cup ConditionBlocks \cup ReferenceBlocks

RECURSIVE HasReference(_)
HasReference(block) ==
    \/ block.type = "Reference"
    \/ \E i \in 1..Len(block.blocks) : HasReference(block.blocks[i])

RECURSIVE HasType(_, _)
HasType(block, type) ==
    \/ block.type = type
    \/ \E i \in 1..Len(block.blocks) : HasType(block.blocks[i], type)

Expr(block) == [block |-> block, name |-> "n"]
EmptyRegistry == [id \in Ids |-> NoExpr]

\* schedules handed to blocks with references: none, an empty registry, a
\* plain field, a field that refuses merging, a chain a -> b, and a cycle
\* a -> b -> a
Registries ==
    {NoSchedule, EmptyRegistry,
     [EmptyRegistry EXCEPT !["a"] =
        Expr(Field("FieldTime", <<Interval(0, Noon - 1), Interval(Noon, MaxTimeOfDay)>>,
                   "DEFAULT"))],
     [EmptyRegistry EXCEPT !["a"] =
        Expr(Field("FieldTime", <<Interval(0, Noon - 1), Interval(Noon, MaxTimeOfDay)>>,
                   "EXPLICIT_OFF"))],
     [EmptyRegistry EXCEPT !["a"] = Expr(Reference("b", "DEFAULT")),
                           !["b"] = Expr(Field("FieldWeekDay", <<NumberValue(4)>>, "DEFAULT"))],
     [EmptyRegistry EXCEPT !["a"] = Expr(Reference("b", "DEFAULT")),
                           !["b"] = Expr(Reference("a", "DEFAULT"))]}

\* local time zones: UTC and one hour behind it
TzOffsets == {0, -HourMs}

-----------------------------------------------------------------------------
(* State shared by the specifications *)

\* _cachedHash = null
NoHash == <<>>

\* the object `new X(..)` leaves: the content given, _cachedHash null
Built(block) == [block |-> block, cachedHash |-> NoHash]

\* no block object is under mutation
NoBuilt == Built(NoExpr.block)

NoAlias == [key |-> NoKey, shares |-> "none"]
NoEviction == [ran |-> FALSE, victim |-> NoKey, before |-> <<>>, after |-> <<>>,
               recent |-> NoKey]

\* new ScheduleCache({maxSize})
\* options.maxRangesPerEntry ?? 10000
DefaultMaxRangesPerEntry == 10000

\* new ScheduleCache({maxSize, maxRangesPerEntry})
NewCache(maxSize, maxRangesPerEntry) ==
    [maxSize |-> maxSize, maxRangesPerEntry |-> maxRangesPerEntry, entries |-> <<>>]

\* block.evaluate(startUnix, endUnix, schedule) against the current registry
EvaluateOver(block, dom) ==
    Evaluate(block, dom[1], dom[2], expressions, "undefined", MaxDepth)

\* recency (ghost): the keys in the order of their last access, each with
\* whether that access was a get; a key goes to the end on an access and is
\* dropped on a delete
Touch(order, key, read) ==
    Append(SelectSeq(order, LAMBDA k : k.key # key), [key |-> key, read |-> read])
KeepKeys(order, entries) ==
    SelectSeq(order, LAMBDA k : \E i \in 1..Len(entries) : entries[i].key = k.key)

\* Date.now() moves on; two operations may run within one millisecond
Tick ==
    /\ now < MaxNow
    /\ now' = now + 1
    /\ UNCHANGED <<expressions, cache, tz, built, op, ret, held, heldKey, evicted, recency>>

\* The caller's list and the cache.  `held` is the array the caller got from
\* the last call; heldKey says what it shares with the entry stored under a
\* key: "array" (it is the stored array), "elements" (another array holding
\* the same interval objects), "none".
Pristine(entries) == \A i \in 1..Len(entries) : entries[i].ranges = entries[i].stored

\* The write the caller's mutation makes to the entry at position at.
MutateEntries(entries, i, interval) ==
    LET at == KeyIndex(entries, heldKey.key) IN
    IF heldKey.shares = "none" \/ at = 0 \/ i > Len(entries[at].ranges) THEN entries
    ELSE [entries EXCEPT ![at].ranges[i] = interval]

\* held[i].end = held[i].start: the caller changes an interval object of the
\* list it holds, and lets go of the list.  One change is followed: the
\* caller changes a list only while the cache still holds what set stored.
MutateHeldElement ==
    /\ Pristine(cache.entries)
    /\ \E i \in 1..Len(held) :
        /\ held[i].end # held[i].start
        /\ cache' = [cache EXCEPT !.entries =
                        MutateEntries(@, i, Interval(held[i].start, held[i].start))]
    /\ held' = <<>>
    /\ heldKey' = NoAlias
    /\ op' = [name |-> "mutate"]
    /\ evicted' = NoEviction
    /\ UNCHANGED <<expressions, now, tz, built, ret, recency>>

\* held.pop(): the caller changes the array it holds, and lets go of it
MutateHeldArray ==
    /\ Pristine(cache.entries)
    /\ Len(held) > 0
    /\ cache' = LET at == KeyIndex(cache.entries, heldKey.key) IN
                IF heldKey.shares = "array" /\ at # 0
                THEN [cache EXCEPT !.entries[at].ranges = SubSeq(@, 1, Len(@) - 1)]
                ELSE cache
    /\ held' = <<>>
    /\ heldKey' = NoAlias
    /\ op' = [name |-> "mutate"]
    /\ evicted' = NoEviction
    /\ UNCHANGED <<expressions, now, tz, built, ret, recency>>

-----------------------------------------------------------------------------
(* CacheSpec: a ScheduleCache used directly: set (with the list a block's  *)
(* evaluate returned), get, clear.                                         *)

CacheBlocks ==
    {Field("FieldTime", <<Interval(6 * HourMs, 18 * HourMs), Interval(0, Noon - 1)>>,
           "EXPLICIT_OFF"),
     Field("FieldTime", <<Interval(0, Noon - 1)>>, "DEFAULT")}

\* the epoch day and the days from it on, each also from noon
CacheDomains ==
    {dom \in Domains : /\ dom[1] \in {0, Noon}
                       /\ dom[2] \in {MaxTimeOfDay, MaxDay * DayMs + MaxTimeOfDay}
                       /\ (dom[1] = 0 \/ dom[2] # MaxTimeOfDay)}

CacheInit ==
    /\ expressions = EmptyRegistry
    /\ \E maxSize \in 1..MaxCacheSize : cache = NewCache(maxSize, DefaultMaxRangesPerEntry)
    /\ now = 0
    /\ tz = 0
    /\ op = [name |-> "construct"]
    /\ ret = [hit |-> "miss", ranges |-> <<>>, source |-> <<>>, pristine |-> TRUE]
    /\ held = <<>>
    /\ heldKey = NoAlias
    /\ evicted = NoEviction
    /\ recency = <<>>
    /\ built = NoBuilt

NoReturn == [hit |-> "miss", ranges |-> <<>>, source |-> <<>>, pristine |-> TRUE]

\* what evictLRU did during a set; recent: the key accessed last of all, when
\* that access was a get
Eviction(done, order) ==
    IF done.victim = 0 THEN NoEviction
    ELSE [ran |-> TRUE, victim |-> done.beforeEvict[done.victim].key,
          before |-> done.beforeEvict,
          after |-> DeleteAt(done.beforeEvict, done.victim),
          recent |-> LET kept == KeepKeys(order, done.beforeEvict)
                     IN  IF Len(kept) > 0 /\ kept[Len(kept)].read
                         THEN kept[Len(kept)].key ELSE NoKey]

\* cache.set(block, startUnix, endUnix, ranges), ranges being the list
\* block.evaluate(startUnix, endUnix) returned to the caller
CacheSet ==
    \E block \in CacheBlocks, dom \in CacheDomains :
        LET ranges == EvaluateOver(block, dom).value
            done   == cacheSet(cache.entries, cache.maxSize, block, dom[1], dom[2],
                               ranges, now)
            key    == generateKey(block, dom[1], dom[2])
        IN  /\ cache' = [cache EXCEPT !.entries = done.entries]
            /\ op' = [name |-> "set", block |-> block,
                      startUnix |-> dom[1], endUnix |-> dom[2]]
            /\ ret' = NoReturn
            /\ held' = ranges
            /\ heldKey' = [key |-> key, shares |-> "elements"]
            /\ evicted' = Eviction(done, recency)
            /\ recency' = Touch(KeepKeys(recency, done.entries), key, FALSE)
            /\ UNCHANGED <<expressions, now, tz, built>>

\* cache.get(block, startUnix, endUnix)
CacheGet ==
    \E block \in CacheBlocks, dom \in CacheDomains :
        LET got == cacheGet(cache.entries, block, dom[1], dom[2], now) IN
            /\ cache' = [cache EXCEPT !.entries = got.entries]
            /\ op' = [name |-> "get", block |-> block,
                      startUnix |-> dom[1], endUnix |-> dom[2]]
            /\ ret' = IF got.hit = "miss" THEN NoReturn
                      ELSE [hit |-> got.hit, ranges |-> got.ranges,
                            source |-> cache.entries[got.at].ranges,
                            pristine |-> cache.entries[got.at].ranges
                                         = cache.entries[got.at].stored]
            /\ held' = got.ranges
            /\ heldKey' = IF got.hit = "exact"
                          THEN [key |-> cache.entries[got.at].key, shares |-> "array"]
                          ELSE NoAlias
            /\ evicted' = NoEviction
            /\ recency' = IF got.hit = "miss" THEN recency
                          ELSE Touch(recency, cache.entries[got.at].key, TRUE)
            /\ UNCHANGED <<expressions, now, tz, built>>

\* cache.clear()
CacheClear ==
    /\ Len(cache.entries) > 0
    /\ cache' = [cache EXCEPT !.entries = <<>>]
    /\ op' = [name |-> "clear"]
    /\ ret' = NoReturn
    /\ heldKey' = NoAlias
    /\ evicted' = NoEviction
    /\ recency' = <<>>
    /\ UNCHANGED <<expressions, now, tz, built, held>>

CacheNext ==
    \/ CacheSet
    \/ CacheGet
    \/ CacheClear
    \/ Tick
    \/ MutateHeldElement
    \/ MutateHeldArray

CacheSpec == CacheInit /\ [][CacheNext]_vars

-----------------------------------------------------------------------------
(* Spec: a Schedule with its cache: setExpression, removeExpression,       *)
(* evaluate, evaluateTimestamp.                                            *)

\* the blocks stored as expressions
ScheduleBlocks ==
    {Field("FieldTime", <<Interval(0, Noon - 1)>>, "DEFAULT"),
     Field("FieldTime", <<Interval(Noon, MaxTimeOfDay)>>, "DEFAULT"),
     Reference("a", "DEFAULT")}

ScheduleDomains == {dom \in CacheDomains : dom[1] = 0 /\ dom[2] = MaxTimeOfDay}
ScheduleProbes == {Noon}

\* an id setExpression refuses
OtherIds == {"a-b"}

\* /^[a-zA-Z0-9]+$/.test(id), for the ids explored
ValidId(id) == id \in Ids

\* what a Schedule call returned; hit / pristine (ghost): how the cache
\* served it, and whether the entry that served it was as set stored it
Returned(result, hit, pristine) ==
    [kind |-> result.kind, value |-> result.value, error |-> result.error,
     hit |-> hit, pristine |-> pristine]

\* the values of options.maxRangesPerEntry explored: one that no result of
\* a non-empty list fits, and the default
RangesPerEntry == {0, DefaultMaxRangesPerEntry}

Init ==
    /\ expressions = EmptyRegistry
    /\ \E maxSize \in 1..MaxCacheSize, maxRangesPerEntry \in RangesPerEntry :
          cache = NewCache(maxSize, maxRangesPerEntry)
    /\ now = 0
    /\ tz = 0
    /\ op = [name |-> "construct"]
    /\ ret = Returned(SuccessB(TRUE), "miss", TRUE)
    /\ held = <<>>
    /\ heldKey = NoAlias
    /\ evicted = NoEviction
    /\ recency = <<>>
    /\ built = NoBuilt

\* a registry that reports no id as present
HasNothing(registry, id) == FALSE

\* this.expressions.has(id)
has(registry, id) == registry[id] # NoExpr

\* schedule.setExpression(id, name, block, overwrite)
SetExpression ==
    \E id \in Ids \cup OtherIds, block \in ScheduleBlocks, overwrite \in BOOLEAN :
        /\ op' = [name |-> "setExpression", id |-> id, overwrite |-> overwrite]
        /\ IF ~ValidId(id)
           THEN /\ ret' = Returned(FailB("InvalidIDError"), "miss", TRUE)
                /\ UNCHANGED expressions
           ELSE IF ~overwrite /\ has(expressions, id)
           THEN /\ ret' = Returned(FailB("ValidationError"), "miss", TRUE)
                /\ UNCHANGED expressions
           ELSE /\ ret' = Returned(SuccessB(TRUE), "miss", TRUE)
                /\ expressions' = [expressions EXCEPT ![id] = Expr(block)]
        /\ evicted' = NoEviction
        /\ UNCHANGED <<cache, now, tz, built, held, heldKey, recency>>

\* schedule.removeExpression(id)
RemoveExpression ==
    \E id \in Ids :
        /\ op' = [name |-> "removeExpression", id |-> id]
        /\ ret' = Returned(SuccessB(expressions[id] # NoExpr), "miss", TRUE)
        /\ expressions' = [expressions EXCEPT ![id] = NoExpr]
        /\ evicted' = NoEviction
        /\ UNCHANGED <<cache, now, tz, built, held, heldKey, recency>>

\* a Schedule that stores every result
AlwaysCache(cacheAfter, maxRangesPerEntry, ranges) == TRUE

\* cacheAfter && this.cache.maxRangesPerEntry >= ranges.length
ShouldCache(cacheAfter, maxRangesPerEntry, ranges) ==
    cacheAfter /\ maxRangesPerEntry >= Len(ranges)

\* schedule.evaluate(id, domainStart, domainEnd, cacheAfter)
ScheduleEvaluate ==
    \E id \in Ids, dom \in ScheduleDomains, cacheAfter \in BOOLEAN :
        LET expression == expressions[id]
            block  == expression.block
            got    == cacheGet(cache.entries, block, dom[1], dom[2], now)
            result == Evaluate(block, dom[1], dom[2], expressions, "undefined", MaxDepth)
            done   == cacheSet(cache.entries, cache.maxSize, block, dom[1], dom[2],
                               result.value, now)
            key    == generateKey(block, dom[1], dom[2])
        IN  /\ op' = [name |-> "Schedule.evaluate", id |-> id, startUnix |-> dom[1],
                      endUnix |-> dom[2], cacheAfter |-> cacheAfter]
            /\ IF expression = NoExpr
               THEN /\ ret' = Returned(Throw("ValidationError", <<>>), "miss", TRUE)
                    /\ held' = <<>>
                    /\ heldKey' = NoAlias
                    /\ evicted' = NoEviction
                    /\ UNCHANGED <<cache, recency>>
               ELSE IF got.hit # "miss"
               THEN /\ ret' = Returned(Success(got.ranges, <<>>), got.hit,
                                       cache.entries[got.at].ranges
                                       = cache.entries[got.at].stored)
                    /\ cache' = [cache EXCEPT !.entries = got.entries]
                    /\ held' = got.ranges
                    /\ heldKey' = IF got.hit = "exact"
                                  THEN [key |-> cache.entries[got.at].key,
                                        shares |-> "array"]
                                  ELSE NoAlias
                    /\ evicted' = NoEviction
                    /\ recency' = Touch(recency, cache.entries[got.at].key, TRUE)
               ELSE IF result.kind # "success"
               THEN /\ ret' = Returned(result, "miss", TRUE)
                    /\ held' = <<>>
                    /\ heldKey' = NoAlias
                    /\ evicted' = NoEviction
                    /\ UNCHANGED <<cache, recency>>
               ELSE IF ShouldCache(cacheAfter, cache.maxRangesPerEntry, result.value)
               THEN /\ ret' = Returned(result, "miss", TRUE)
                    /\ cache' = [cache EXCEPT !.entries = done.entries]
                    /\ held' = result.value
                    /\ heldKey' = [key |-> key, shares |-> "elements"]
                    /\ evicted' = Eviction(done, recency)
                    /\ recency' = Touch(KeepKeys(recency, done.entries), key, FALSE)
               ELSE /\ ret' = Returned(result, "miss", TRUE)
                    /\ held' = result.value
                    /\ heldKey' = NoAlias
                    /\ evicted' = NoEviction
                    /\ UNCHANGED <<cache, recency>>
            /\ UNCHANGED <<expressions, now, tz, built>>

\* schedule.evaluateTimestamp(id, timestamp)
ScheduleEvaluateTimestamp ==
    \E id \in Ids, unix \in ScheduleProbes :
        /\ op' = [name |-> "Schedule.evaluateTimestamp", id |-> id, unix |-> unix]
        /\ ret' = IF expressions[id] = NoExpr
                  THEN Returned(ThrowB("ValidationError"), "miss", TRUE)
                  ELSE Returned(EvaluateTimestamp(expressions[id].block, unix,
                                                  expressions, tz, MaxDepth),
                                "miss", TRUE)
        /\ evicted' = NoEviction
        /\ UNCHANGED <<expressions, cache, now, tz, built, held, heldKey, recency>>

Next ==
    \/ SetExpression
    \/ RemoveExpression
    \/ ScheduleEvaluate
    \/ ScheduleEvaluateTimestamp
    \/ Tick

Spec == Init /\ [][Next]_vars

-----------------------------------------------------------------------------
(* EvalSpec: a block is built, with a registry beside it, and one of its   *)
(* two evaluation methods is called.  A call does not change the block, so *)
(* one call per behaviour covers every call.                               *)

EvalInit ==
    \E block \in Blocks :
    \E registry \in (IF HasReference(block) THEN Registries ELSE {EmptyRegistry}) :
    \E offset \in (IF HasType(block, "FieldYear") THEN TzOffsets ELSE {0}) :
        /\ expressions = registry
        /\ cache = NewCache(1, DefaultMaxRangesPerEntry)
        /\ now = 0
        /\ tz = offset
        /\ op = [name |-> "construct", block |-> block]
        /\ ret = Success(<<>>, <<>>)
        /\ held = <<>>
        /\ heldKey = NoAlias
        /\ evicted = NoEviction
        /\ recency = <<>>
        /\ built = NoBuilt

\* block.evaluate(startUnix, endUnix, schedule, merge)
BlockEvaluate ==
    /\ op.name = "construct"
    /\ \E dom \in Domains, merge \in MergeArgs :
        /\ op' = [name |-> "evaluate", block |-> op.block,
                  startUnix |-> dom[1], endUnix |-> dom[2], merge |-> merge]
        /\ ret' = Evaluate(op.block, dom[1], dom[2], expressions, merge, MaxDepth)
    /\ UNCHANGED <<expressions, cache, now, tz, built, held, heldKey, evicted, recency>>

\* block.evaluateTimestamp(unix, schedule)
BlockEvaluateTimestamp ==
    /\ op.name = "construct"
    /\ \E unix \in Probes :
        /\ op' = [name |-> "evaluateTimestamp", block |-> op.block, unix |-> unix]
        /\ ret' = EvaluateTimestamp(op.block, unix, expressions, tz, MaxDepth)
    /\ UNCHANGED <<expressions, cache, now, tz, built, held, heldKey, evicted, recency>>

EvalNext == BlockEvaluate \/ BlockEvaluateTimestamp

EvalSpec == EvalInit /\ [][EvalNext]_vars

-----------------------------------------------------------------------------
(* HashSpec: one block object is built and then mutated through its public *)
(* mutators, with getHash and clone called in between.  `built` is the     *)
(* object: its content and its _cachedHash.  The children handed to        *)
(* addBlock / setBlock are not mutated afterwards, so a child's getHash    *)
(* always returns the hash of the child's content.                         *)

\* most values a built field is grown to by single calls
MaxBuiltVals == 2

\* array.splice(index, 0, x), index counted from 0
Splice(seq, index, x) == SubSeq(seq, 1, index) \o <<x>> \o SubSeq(seq, index + 1, Len(seq))

\* what a mutator leaves: the array, whether it threw, whether it ran
\* _invalidateHash
Mutated(array, invalidates) == [array |-> array, error |-> "", invalidates |-> invalidates]
MutatorThrew(array, error) == [array |-> array, error |-> error, invalidates |-> FALSE]

\* the field classes that override addValue / removeValue
OverridingFields == {"FieldTime", "FieldYear", "FieldDate", "FieldDateTime"}

\* Field.addValue(value, index?) and its overrides, for a value that passes
\* validateValue.  TimeField's override returns before Field's
\* _invalidateHash; YearField, DateField and DateTimeField test `if (index)`
\* and push after the splice.
addValue(type, values, value, hasIndex, index) ==
    IF type \in {"FieldYear", "FieldDate", "FieldDateTime"}
    THEN IF hasIndex /\ index # 0
         THEN IF index >= 0 /\ index < Len(values)
              THEN Mutated(Append(Splice(values, index, value), value), FALSE)
              ELSE MutatorThrew(values, "RangeError")
         ELSE Mutated(Append(values, value), FALSE)
    ELSE IF hasIndex
         THEN IF index >= 0 /\ index <= Len(values)
              THEN Mutated(Splice(values, index, value), type # "FieldTime")
              ELSE MutatorThrew(values, "IndexOutOfBoundsError")
         ELSE Mutated(Append(values, value), type # "FieldTime")

\* Field.removeValue(index) and its overrides
removeValue(type, values, index) ==
    IF index >= 0 /\ index < Len(values)
    THEN Mutated(DeleteAt(values, index + 1), type \notin OverridingFields)
    ELSE MutatorThrew(values, IF type \in {"FieldYear", "FieldDate", "FieldDateTime"}
                              THEN "RangeError" ELSE "IndexOutOfBoundsError")

\* BinaryOperator.addBlock(block, index?)
addBlock(blocks, block, hasIndex, index) ==
    IF hasIndex
    THEN IF index >= 0 /\ index <= Len(blocks)
         THEN Mutated(Splice(blocks, index, block), TRUE)
         ELSE MutatorThrew(blocks, "IndexOutOfBoundsError")
    ELSE Mutated(Append(blocks, block), TRUE)

\* BinaryOperator.removeBlock(index)
removeBlock(blocks, index) ==
    IF index >= 0 /\ index < Len(blocks)
    THEN Mutated(DeleteAt(blocks, index + 1), TRUE)
    ELSE MutatorThrew(blocks, "IndexOutOfBoundsError")

\* a copy that keeps every merge state
CopyWithMerge(block) == block

RECURSIVE clone(_)
\* clone() of every class: new X([...this.values]), new X(blocks.map(b =>
\* b.clone())), new NotBlock(this.block?.clone()), new Reference(this.id).
\* No constructor takes a merge state, so the copy and its descendants have
\* DEFAULT.
clone(block) ==
    CASE block.type \in FieldTypes -> Field(block.type, block.values, "DEFAULT")
      [] block.type = "Reference" -> Reference(block.id, "DEFAULT")
      [] OTHER -> Condition(block.type,
                            [i \in 1..Len(block.blocks) |-> clone(block.blocks[i])],
                            "DEFAULT")

\* getHash(): the memo, computed from the content when it is null
memoHash(object) ==
    IF object.cachedHash = NoHash THEN getHash(object.block) ELSE object.cachedHash

\* the objects built: every class, constructed without arguments
BuiltBlocks ==
    {Field(type, <<>>, "DEFAULT") : type \in FieldTypes}
    \cup {Condition(type, <<>>, "DEFAULT") :
             type \in {"ConditionAnd", "ConditionOr", "ConditionNot"}}
    \cup {Reference("a", "DEFAULT")}

\* the values handed to addValue
BuiltValues(type) ==
    CASE type = "FieldTime" -> {Interval(0, Noon - 1), Interval(Noon, MaxTimeOfDay)}
      [] type = "FieldWeekDay" -> {NumberValue(4), RangeValue(3, 4)}
      [] type = "FieldMonthDay" -> {NumberValue(31), RangeValue(1, 2)}
      [] type = "FieldMonth" -> {NumberValue(1), NumberValue(12)}
      [] type = "FieldYear" -> {NumberValue(1969), NumberValue(1970)}
      [] type = "FieldDate" -> {Interval(0, MaxTimeOfDay), Interval(DayMs, DayMs + MaxTimeOfDay)}
      [] OTHER -> {Interval(-Noon, Noon - 1), Interval(0, 0)}

\* the children handed to addBlock and setBlock
BuiltChildren ==
    {Field("FieldTime", <<Interval(0, Noon - 1)>>, "DEFAULT"),
     Field("FieldWeekDay", <<NumberValue(4)>>, "EXPLICIT_OFF"),
     Reference("a", "EXPLICIT_ON")}

\* the index arguments: before, inside and past the array
BuiltIndexes == (-1)..(MaxBuiltVals + 1)

Returns(value) == [kind |-> "success", value |-> value, error |-> ""]
Throws(error) == [kind |-> "throw", value |-> NoHash, error |-> error]

HashInit ==
    \E block \in BuiltBlocks :
        /\ expressions = EmptyRegistry
        /\ cache = NewCache(1, DefaultMaxRangesPerEntry)
        /\ now = 0
        /\ tz = 0
        /\ op = [name |-> "construct"]
        /\ ret = Returns(NoHash)
        /\ held = <<>>
        /\ heldKey = NoAlias
        /\ evicted = NoEviction
        /\ recency = <<>>
        /\ built = Built(block)

\* what every call on the object leaves alone
HashFrame == UNCHANGED <<expressions, cache, now, tz, held, heldKey, evicted, recency>>

\* the object after a mutator of its values or children
AfterMutator(field, done) ==
    [block |-> [built.block EXCEPT ![field] = done.array],
     cachedHash |-> IF done.invalidates THEN NoHash ELSE built.cachedHash]

\* block.getHash()
GetHash ==
    /\ op' = [name |-> "getHash"]
    /\ ret' = Returns(memoHash(built))
    /\ built' = [built EXCEPT !.cachedHash = memoHash(built)]
    /\ HashFrame

\* block.clone()
Clone ==
    /\ op' = [name |-> "clone"]
    /\ ret' = Returns(clone(built.block))
    /\ built' = built
    /\ HashFrame

\* block.setMerge(state)
SetMerge ==
    \E state \in MergeStates :
        /\ op' = [name |-> "setMerge", state |-> state]
        /\ ret' = Returns(NoHash)
        /\ built' = [block |-> [built.block EXCEPT !.merge = state], cachedHash |-> NoHash]
        /\ HashFrame

\* field.addValue(value, index?)
AddValue ==
    /\ built.block.type \in FieldTypes
    /\ Len(built.block.values) < MaxBuiltVals
    /\ \E value \in BuiltValues(built.block.type), hasIndex \in BOOLEAN :
       \E index \in (IF hasIndex THEN BuiltIndexes ELSE {0}) :
          LET done == addValue(built.block.type, built.block.values, value, hasIndex, index)
          IN  /\ op' = [name |-> "addValue", value |-> value, hasIndex |-> hasIndex,
                        index |-> index]
              /\ ret' = IF done.error = "" THEN Returns(NoHash) ELSE Throws(done.error)
              /\ built' = AfterMutator("values", done)
    /\ HashFrame

\* field.removeValue(index)
RemoveValue ==
    /\ built.block.type \in FieldTypes
    /\ \E index \in BuiltIndexes :
          LET done == removeValue(built.block.type, built.block.values, index)
          IN  /\ op' = [name |-> "removeValue", index |-> index]
              /\ ret' = IF done.error = "" THEN Returns(NoHash) ELSE Throws(done.error)
              /\ built' = AfterMutator("values", done)
    /\ HashFrame

\* and.addBlock(block, index?), or.addBlock(block, index?)
AddBlock ==
    /\ built.block.type \in {"ConditionAnd", "ConditionOr"}
    /\ Len(built.block.blocks) < MaxBuiltVals
    /\ \E block \in BuiltChildren, hasIndex \in BOOLEAN :
       \E index \in (IF hasIndex THEN BuiltIndexes ELSE {0}) :
          LET done == addBlock(built.block.blocks, block, hasIndex, index)
          IN  /\ op' = [name |-> "addBlock", block |-> block, hasIndex |-> hasIndex,
                        index |-> index]
              /\ ret' = IF done.error = "" THEN Returns(NoHash) ELSE Throws(done.error)
              /\ built' = AfterMutator("blocks", done)
    /\ HashFrame

\* and.removeBlock(index), or.removeBlock(index)
RemoveBlock ==
    /\ built.block.type \in {"ConditionAnd", "ConditionOr"}
    /\ \E index \in BuiltIndexes :
          LET done == removeBlock(built.block.blocks, index)
          IN  /\ op' = [name |-> "removeBlock", index |-> index]
              /\ ret' = IF done.error = "" THEN Returns(NoHash) ELSE Throws(done.error)
              /\ built' = AfterMutator("blocks", done)
    /\ HashFrame

\* not.setBlock(block)
SetBlock ==
    /\ built.block.type = "ConditionNot"
    /\ \E block \in BuiltChildren :
          /\ op' = [name |-> "setBlock", block |-> block]
          /\ ret' = Returns(NoHash)
          /\ built' = AfterMutator("blocks", Mutated(<<block>>, TRUE))
    /\ HashFrame

\* not.clearBlock()
ClearBlock ==
    /\ built.block.type = "ConditionNot"
    /\ op' = [name |-> "clearBlock"]
    /\ ret' = Returns(NoHash)
    /\ built' = AfterMutator("blocks", Mutated(<<>>, TRUE))
    /\ HashFrame

\* reference.setId(id)
SetId ==
    /\ built.block.type = "Reference"
    /\ \E id \in Ids :
          /\ op' = [name |-> "setId", id |-> id]
          /\ ret' = Returns(NoHash)
          /\ built' = AfterMutator("id", Mutated(id, TRUE))
    /\ HashFrame

HashNext ==
    \/ GetHash
    \/ Clone
    \/ SetMerge
    \/ AddValue
    \/ RemoveValue
    \/ AddBlock
    \/ RemoveBlock
    \/ SetBlock
    \/ ClearBlock
    \/ SetId

HashSpec == HashInit /\ [][HashNext]_vars

-----------------------------------------------------------------------------
(* LawSpec: two blocks a and b are built, conditions are built over them,  *)
(* and the two sides of a law are evaluated over the same domain with the  *)
(* same merge argument.                                                    *)

\* what a caller sees of a Result
Outcome(result) == [kind |-> result.kind, value |-> result.value, error |-> result.error]

\* new NotBlock(block), new AndOperator(blocks), new OrBlock(blocks)
NotOf(block) == Condition("ConditionNot", <<block>>, "DEFAULT")
AndOf(blocks) == Condition("ConditionAnd", blocks, "DEFAULT")
OrOf(blocks) == Condition("ConditionOr", blocks, "DEFAULT")

LawInit ==
    \E a \in Atoms, b \in Atoms :
    \E registry \in (IF HasReference(a) \/ HasReference(b) THEN Registries
                     ELSE {EmptyRegistry}) :
        /\ expressions = registry
        /\ cache = NewCache(1, DefaultMaxRangesPerEntry)
        /\ now = 0
        /\ tz = 0
        /\ op = [name |-> "construct", a |-> a, b |-> b]
        /\ ret = [left |-> Outcome(Success(<<>>, <<>>)), right |-> Outcome(Success(<<>>, <<>>))]
        /\ held = <<>>
        /\ heldKey = NoAlias
        /\ evicted = NoEviction
        /\ recency = <<>>
        /\ built = NoBuilt

LawFrame == UNCHANGED <<expressions, cache, now, tz, held, heldKey, evicted, recency, built>>

\* new NotBlock(new AndOperator([a, b])).evaluate(..) and
\* new OrBlock([new NotBlock(a), new NotBlock(b)]).evaluate(..)
EvaluateDeMorgan ==
    /\ op.name = "construct"
    /\ \E dom \in Domains, merge \in MergeArgs :
          /\ op' = [name |-> "deMorgan", a |-> op.a, b |-> op.b, startUnix |-> dom[1],
                    endUnix |-> dom[2], merge |-> merge]
          /\ ret' = [left |-> Outcome(Evaluate(NotOf(AndOf(<<op.a, op.b>>)), dom[1], dom[2],
                                               expressions, merge, MaxDepth)),
                     right |-> Outcome(Evaluate(OrOf(<<NotOf(op.a), NotOf(op.b)>>), dom[1],
                                                dom[2], expressions, merge, MaxDepth))]
    /\ LawFrame

\* new NotBlock(new NotBlock(b)).evaluate(..) and b.evaluate(..)
EvaluateDoubleNot ==
    /\ op.name = "construct"
    /\ \E dom \in Domains, merge \in MergeArgs :
          /\ op' = [name |-> "doubleNot", a |-> op.a, b |-> op.b, startUnix |-> dom[1],
                    endUnix |-> dom[2], merge |-> merge]
          /\ ret' = [left |-> Outcome(Evaluate(NotOf(NotOf(op.b)), dom[1], dom[2],
                                               expressions, merge, MaxDepth)),
                     right |-> Outcome(Evaluate(op.b, dom[1], dom[2], expressions, merge,
                                                MaxDepth))]
    /\ LawFrame

LawNext == EvaluateDeMorgan \/ EvaluateDoubleNot

LawSpec == LawInit /\ [][LawNext]_vars

-----------------------------------------------------------------------------
(* WeekSpec: a WeekDayField with one value is built and evaluated over the *)
(* days of one Monday-to-Sunday week.                                      *)

\* the days, counted from the epoch, of the week Monday 1970-01-05 to
\* Sunday 1970-01-11
WeekDays == 4..10

\* the values of the fields built: algebraic a*n +- y, a number, a range
WeekValues ==
    {AlgebraicValue(a, o, y) : a \in 1..3, o \in {"+", "-"}, y \in 0..2}
    \cup {NumberValue(1), RangeValue(1, 5)}

WeekInit ==
    \E value \in WeekValues, state \in MergeStates :
        /\ expressions = EmptyRegistry
        /\ cache = NewCache(1, DefaultMaxRangesPerEntry)
        /\ now = 0
        /\ tz = 0
        /\ op = [name |-> "construct", block |-> Field("FieldWeekDay", <<value>>, state)]
        /\ ret = Success(<<>>, <<>>)
        /\ held = <<>>
        /\ heldKey = NoAlias
        /\ evicted = NoEviction
        /\ recency = <<>>
        /\ built = NoBuilt

\* field.evaluate(startUnix, endUnix, schedule, merge) over whole days of the week
EvaluateWeek ==
    /\ op.name = "construct"
    /\ \E first \in WeekDays, last \in WeekDays, merge \in MergeArgs :
          /\ first <= last
          /\ op' = [name |-> "evaluate", block |-> op.block, startUnix |-> first * DayMs,
                    endUnix |-> last * DayMs + MaxTimeOfDay, merge |-> merge]
          /\ ret' = Evaluate(op.block, first * DayMs, last * DayMs + MaxTimeOfDay,
                             expressions, merge, MaxDepth)
    /\ UNCHANGED <<expressions, cache, now, tz, built, held, heldKey, evicted, recency>>

\* field.evaluateTimestamp(unix) at noon of a day of the week
EvaluateWeekTimestamp ==
    /\ op.name = "construct"
    /\ \E day \in WeekDays :
          /\ op' = [name |-> "evaluateTimestamp", block |-> op.block,
                    unix |-> day * DayMs + Noon]
          /\ ret' = EvaluateTimestamp(op.block, day * DayMs + Noon, expressions, tz, MaxDepth)
    /\ UNCHANGED <<expressions, cache, now, tz, built, held, heldKey, evicted, recency>>

WeekNext == EvaluateWeek \/ EvaluateWeekTimestamp

WeekSpec == WeekInit /\ [][WeekNext]_vars

-----------------------------------------------------------------------------
(* Properties of block evaluation (EvalSpec) *)

\* C1: for every block tree and every timestamp t inside a domain [s, e],
\* evaluateTimestamp(t) is true exactly when some interval of evaluate(s, e)
\* contains t; And / Or without children and Not without a child included.
C1_TimestampAgreesWithEvaluate ==
    (op.name = "evaluateTimestamp" /\ ret.kind = "success") =>
        \A dom \in Domains :
            (dom[1] <= op.unix /\ op.unix <= dom[2]
             /\ EvaluateOver(op.block, dom).kind = "success")
            => (ret.value <=> Contains(EvaluateOver(op.block, dom).value, op.unix))

\* C7: every interval evaluate returns over [s, e] has s <= start <= end <= e.
C7_IntervalsInsideDomain ==
    (op.name = "evaluate" /\ ret.kind = "success") =>
        \A i \in 1..Len(ret.value) :
            /\ op.startUnix <= ret.value[i].start
            /\ ret.value[i].start <= ret.value[i].end
            /\ ret.value[i].end <= op.endUnix

\* C8: the list evaluate returns is sorted by start, strictly increasing,
\* whatever the merge state and the order of a field's values.
C8_SortedByStart ==
    (op.name = "evaluate" /\ ret.kind = "success") =>
        \A i \in 1..(Len(ret.value) - 1) : ret.value[i].start < ret.value[i + 1].start

\* the merge the block called resolves from its state and the argument
EffectiveMerge == ShouldMerge(op.block.merge, op.merge)

\* no two consecutive intervals overlap or touch
NoTouching(ranges) ==
    \A i \in 1..(Len(ranges) - 1) : ~(ranges[i + 1].start <= ranges[i].end + 1)

\* C9 as stated: for every block whose effective merge is on, no two
\* consecutive intervals of the result overlap or touch.
C9_MergedNeverTouch ==
    (op.name = "evaluate" /\ ret.kind = "success" /\ EffectiveMerge) =>
        NoTouching(ret.value)

\* C9, amended: the same for every block but a Reference, whose result is
\* that of the referenced block, which resolves the merge again from its
\* own state.
C9_MergedNeverTouchButReference ==
    (op.name = "evaluate" /\ ret.kind = "success" /\ EffectiveMerge
     /\ op.block.type # "Reference") =>
        NoTouching(ret.value)

\* a merging block returned several intervals, none touching the next
C9_Witness ==
    /\ op.name = "evaluate" /\ ret.kind = "success" /\ EffectiveMerge
    /\ op.block.type # "Reference"
    /\ Len(op.block.values) + Len(op.block.blocks) > 1
    /\ Len(ret.value) > 1

\* C10: a node passes to its children the merge it resolved from its own
\* state and the argument it received, not the raw argument: a child whose
\* own state is DEFAULT merges exactly when its parent does (so under an
\* And / Or / Not with EXPLICIT_OFF it is evaluated with merge off).
C10_ResolvedMergePassedDown ==
    op.name = "evaluate" =>
        \A i \in 1..Len(ret.calls) :
            ShouldMerge("DEFAULT", ret.calls[i].passed)
                = ShouldMerge(ret.calls[i].state, ret.calls[i].received)

-----------------------------------------------------------------------------
(* Claims about ScheduleCache, checked under CacheSpec *)

\* every interval of ranges that intersects [startUnix, endUnix], clipped,
\* in order
PerElementClipping(ranges, startUnix, endUnix) ==
    LET inside == SelectSeq(ranges,
                      LAMBDA r : r.end >= startUnix /\ r.start <= endUnix)
    IN  ClipAll(inside, startUnix, endUnix)

\* C3: a get served from a wider entry of the same block returns exactly the
\* per-element clipping, to the domain asked for, of the list set stored,
\* whatever list the evaluator produced (merge-off lists included).
C3_SubsetIsPerElementClipping ==
    (op.name = "get" /\ ret.hit = "subset" /\ ret.pristine) =>
        ret.ranges = PerElementClipping(ret.source, op.startUnix, op.endUnix)

\* a subset get of a merge-off list
C3_Witness ==
    /\ op.name = "get" /\ ret.hit = "subset" /\ ret.pristine
    /\ ~NoTouching(ret.source)
    /\ Len(ret.ranges) > 0

\* C4: after any sequence of set, get and clear on a cache built with
\* maxSize >= 1, the number of stored entries never exceeds maxSize.
C4_SizeWithinMaxSize ==
    cache.maxSize >= 1 => Len(cache.entries) <= cache.maxSize

\* a set that had to evict left the cache full
C4_Witness ==
    /\ op.name = "set" /\ evicted.ran
    /\ cache.maxSize >= 1
    /\ Len(cache.entries) = cache.maxSize

\* C5: a set that must evict removes exactly one entry, one whose
\* lastAccessed is the smallest of all stored entries, and not the entry a
\* get read after every other entry was last written or read.
C5_EvictsLeastRecentlyUsed ==
    evicted.ran =>
        LET at == KeyIndex(evicted.before, evicted.victim) IN
        /\ Len(evicted.after) = Len(evicted.before) - 1
        /\ \A i \in 1..Len(evicted.before) :
               evicted.before[at].lastAccessed <= evicted.before[i].lastAccessed
        /\ (Len(evicted.before) > 1 => evicted.victim # evicted.recent)

\* a set evicted an entry while another had been read last
C5_Witness ==
    /\ evicted.ran
    /\ Len(evicted.before) > 1
    /\ evicted.recent # NoKey

\* C6: the cache owns its data: whatever the caller does to a list get
\* returned or to the list it passed to set, a later get for the same key
\* returns the list as set stored it.
C6_CacheOwnsItsData ==
    (op.name = "get" /\ ret.hit = "exact") => ret.pristine

\* a get by exact key returned the stored list
C6_Witness ==
    op.name = "get" /\ ret.hit = "exact" /\ Len(ret.ranges) > 0

-----------------------------------------------------------------------------
(* Claims about Schedule, checked under Spec *)

\* C2: after any sequence of setExpression, removeExpression and evaluate
\* on one Schedule, the list Schedule.evaluate(id, s, e) returns is the list
\* an evaluation without the cache of the current block against the current
\* registry returns: no result cached before a referenced expression was
\* replaced or removed is served afterwards.
C2_EvaluateIsCachelessEvaluation ==
    (op.name = "Schedule.evaluate" /\ ret.kind = "success" /\ ret.pristine) =>
        LET fresh == EvaluateOver(expressions[op.id].block,
                                  <<op.startUnix, op.endUnix>>)
        IN  fresh.kind = "success" /\ ret.value = fresh.value

\* evaluate of a reference was served from the cache
C2_Witness ==
    /\ op.name = "Schedule.evaluate" /\ ret.kind = "success" /\ ret.pristine
    /\ ret.hit # "miss"
    /\ expressions[op.id].block.type = "Reference"

-----------------------------------------------------------------------------
(* Claims about references (EvalSpec) *)

\* C11: Reference.evaluate hands the referenced block the merge the
\* reference resolved: EXPLICIT_ON / EXPLICIT_OFF on the reference override
\* the argument it received, DEFAULT passes the argument on (true when none
\* was given); and a referenced field with an explicit state of its own
\* returns what that state asks for, whatever the reference passed.
C11_ReferenceHandsResolvedMerge ==
    (op.name = "evaluate" /\ op.block.type = "Reference" /\ Len(ret.calls) > 0) =>
        LET call       == ret.calls[1]
            referenced == expressions[op.block.id].block
        IN  /\ call.passed =
                   (CASE call.state = "EXPLICIT_ON" -> "true"
                      [] call.state = "EXPLICIT_OFF" -> "false"
                      [] OTHER -> IF call.received = "undefined" THEN "true"
                                  ELSE call.received)
            /\ (ret.kind = "success" /\ referenced.type \in FieldTypes
                /\ referenced.merge # "DEFAULT") =>
                   ret.value = Evaluate(referenced, op.startUnix, op.endUnix, expressions,
                                        IF referenced.merge = "EXPLICIT_ON" THEN "false"
                                        ELSE "true", MaxDepth).value

\* a reference forcing the merge on, called with merge off, to a field that
\* refuses merging: the field's touching intervals come back unmerged
C11_Witness ==
    /\ op.name = "evaluate" /\ op.block.type = "Reference"
    /\ op.block.merge = "EXPLICIT_ON" /\ op.merge = "false"
    /\ ret.kind = "success" /\ Len(ret.calls) > 0
    /\ ret.calls[1].childState = "EXPLICIT_OFF"
    /\ ~NoTouching(ret.value)

-----------------------------------------------------------------------------
(* Claims about hashes and clones (HashSpec) *)

RECURSIVE AllDefault(_)
\* the block and every descendant have the merge state DEFAULT
AllDefault(block) ==
    /\ block.merge = "DEFAULT"
    /\ \A i \in 1..Len(block.blocks) : AllDefault(block.blocks[i])

RECURSIVE ResetMerge(_)
\* the block with its own and every descendant's merge state set to DEFAULT
ResetMerge(block) ==
    [block EXCEPT !.merge = "DEFAULT",
                  !.blocks = [i \in 1..Len(block.blocks) |-> ResetMerge(block.blocks[i])]]

C13_HashNeverStale ==
    op.name = "getHash" => ret.value = getHash(built.block)
-----------------------------------------------------------------------------
(* Laws of the conditions (LawSpec) *)

\* C14: De Morgan.  With merge on, Not(And(a, b)) and Or(Not(a), Not(b))
\* evaluate to the same interval list over every domain, for all blocks a
\* and b, those that evaluate to the empty list included.
C14_DeMorgan ==
    (op.name = "deMorgan" /\ op.merge # "false") => ret.left = ret.right

\* C15: double negation.  Not(Not(b)) and b evaluate to the same interval
\* list over every domain when both are given the same merge argument.
C15_DoubleNot ==
    op.name = "doubleNot" => ret.left = ret.right
-----------------------------------------------------------------------------
(* Clipping (EvalSpec) *)

\* C16: clipping idempotence.  For every block and every domain [s2, e2]
\* strictly inside the domain [s1, e1] evaluated, evaluate(s2, e2) returns
\* the list obtained from evaluate(s1, e1) by clipping each interval to
\* [s2, e2] and dropping those that fall outside.
C16_ClippingIdempotence ==
    (op.name = "evaluate" /\ ret.kind = "success") =>
        \A dom \in Domains :
            (op.startUnix < dom[1] /\ dom[2] < op.endUnix) =>
                LET narrower == Evaluate(op.block, dom[1], dom[2], expressions, op.merge,
                                         MaxDepth)
                IN  /\ narrower.kind = "success"
                    /\ narrower.value = PerElementClipping(ret.value, dom[1], dom[2])
-----------------------------------------------------------------------------
(* Claims about the registry and about failures (Spec, EvalSpec) *)

C19_UnknownIdIsFailure ==
    (op.name \in {"Schedule.evaluate", "Schedule.evaluateTimestamp"}
     /\ expressions[op.id] = NoExpr) => ret.kind = "fail"

\* the block is a Reference that cannot be resolved: no schedule is given,
\* or the schedule has no expression under its id
Unresolved(block) ==
    /\ block.type = "Reference"
    /\ (expressions = NoSchedule \/ expressions[block.id] = NoExpr)

\* C18: Reference.evaluate and Reference.evaluateTimestamp return a failure
\* carrying ReferenceError, never a success and never an exception, when no
\* schedule is supplied or the schedule has no expression under the id.
C18_UnresolvedReferenceFails ==
    (op.name \in {"evaluate", "evaluateTimestamp"} /\ Unresolved(op.block)) =>
        (ret.kind = "fail" /\ ret.error = "ReferenceError")

C18_Witness ==
    /\ op.name = "evaluateTimestamp" /\ op.block.type = "Reference"
    /\ expressions = NoSchedule
    /\ ret.kind = "fail"

\* what evaluating the k-th child, in the order the parent evaluates them,
\* returns
ChildResult(sorted, k) ==
    Evaluate(sorted[k], op.startUnix, op.endUnix, expressions, op.merge, MaxDepth)

\* C20: if evaluating any child of an And, Or or Not returns an error, the
\* parent's evaluate returns that same error, whatever the other children
\* evaluate to.
C20_ChildErrorsPropagate ==
    (op.name = "evaluate" /\ op.block.type \in {"ConditionAnd", "ConditionOr", "ConditionNot"}) =>
        \A k \in 1..Len(op.block.blocks) :
            ChildResult(op.block.blocks, k).kind = "fail" =>
                (ret.kind = "fail" /\ ret.error = ChildResult(op.block.blocks, k).error)

\* C20 as the code has it: the parent evaluates its children fields first,
\* then conditions, then references, and returns the error of a child it
\* reaches; an And stops with success([]) at the first child that evaluates
\* to the empty list and does not reach the children after it.
C20_ReachedChildErrorsPropagate ==
    (op.name = "evaluate" /\ op.block.type \in {"ConditionAnd", "ConditionOr", "ConditionNot"}) =>
        LET sorted == toSortedByGroup(op.block.blocks) IN
        \A k \in 1..Len(sorted) :
            /\ (/\ Unresolved(sorted[k])
                /\ \A i \in 1..(k - 1) :
                      /\ ChildResult(sorted, i).kind = "success"
                      /\ (op.block.type = "ConditionAnd" =>
                             Len(ChildResult(sorted, i).value) > 0))
               => (ret.kind = "fail" /\ ret.error = "ReferenceError")
            /\ (/\ op.block.type = "ConditionAnd"
                /\ ChildResult(sorted, k).kind = "success"
                /\ Len(ChildResult(sorted, k).value) = 0
                /\ \A i \in 1..(k - 1) : ChildResult(sorted, i).kind = "success")
               => (ret.kind = "success" /\ ret.value = <<>>)

C20_Witness ==
    /\ op.name = "evaluate" /\ op.block.type = "ConditionAnd"
    /\ Len(op.block.blocks) = 2
    /\ Unresolved(op.block.blocks[1])
    /\ op.block.blocks[2].type = "FieldTime"
    /\ ChildResult(op.block.blocks, 2).kind = "success"
    /\ Len(ChildResult(op.block.blocks, 2).value) > 0
    /\ ret.kind = "fail"
-----------------------------------------------------------------------------
(* Numeric fields (WeekSpec, EvalSpec) *)

\* the whole day `day`, as an interval
WholeDay(day) == Interval(day * DayMs, day * DayMs + MaxTimeOfDay)

\* C21: WD[2n+1] matches the weekdays 1, 3, 5 and 7: evaluated with merge on
\* over one Monday-to-Sunday week it yields four single-day intervals, on
\* Monday, Wednesday, Friday and Sunday.
C21_OddWeekdays ==
    (/\ op.name = "evaluate"
     /\ op.block.values = <<AlgebraicValue(2, "+", 1)>>
     /\ ShouldMerge(op.block.merge, op.merge)
     /\ op.startUnix = 4 * DayMs /\ op.endUnix = 10 * DayMs + MaxTimeOfDay) =>
        (/\ ret.kind = "success"
         /\ ret.value = <<WholeDay(4), WholeDay(6), WholeDay(8), WholeDay(10)>>)

\* the fields that walk calendar units
UnitFields == {"FieldWeekDay", "FieldMonthDay", "FieldMonth", "FieldYear"}

\* the calendar unit of the field type (day, month or year) that holds t
UnitOf(type, t) ==
    CASE type = "FieldYear" -> getUTCFullYear(t)
      [] type = "FieldMonth" -> getUTCFullYear(t) * 12 + getUTCMonth(t)
      [] OTHER -> DayOf(t)

RECURSIVE JoinRuns(_, _)
\* the list with every run of intervals that touch (next.start = end + 1)
\* made one interval; result is what is already joined, last interval open
JoinRuns(ranges, result) ==
    IF Len(ranges) = 0 THEN result
    ELSE IF Len(result) > 0 /\ ranges[1].start = result[Len(result)].end + 1
    THEN JoinRuns(Tail(ranges),
                  [result EXCEPT ![Len(result)] = Interval(result[Len(result)].start,
                                                           ranges[1].end)])
    ELSE JoinRuns(Tail(ranges), Append(result, ranges[1]))

\* C22: WeekDay, MonthDay, Month and Year fields.  With effective merge off
\* evaluate emits one interval per matching calendar unit, inside the
\* domain, never joined to the next unit; with effective merge on each
\* maximal run of consecutive matching units is one interval.
C22_UnitsAndRuns ==
    (/\ op.name = "evaluate" /\ op.block.type \in UnitFields
     /\ Len(op.block.values) > 0 /\ ret.kind = "success") =>
        IF ShouldMerge(op.block.merge, op.merge)
        THEN ret.value = JoinRuns(FieldEvaluate(op.block, FALSE, op.startUnix, op.endUnix),
                                  <<>>)
        ELSE \A i \in 1..Len(ret.value) :
                /\ UnitOf(op.block.type, ret.value[i].start)
                       = UnitOf(op.block.type, ret.value[i].end)
                /\ ret.value[i].start >= op.startUnix /\ ret.value[i].end <= op.endUnix
                /\ i > 1 => UnitOf(op.block.type, ret.value[i - 1].end)
                                < UnitOf(op.block.type, ret.value[i].start)

-----------------------------------------------------------------------------
(* Sweep-line set operations (EvalSpec) *)

\* t lies in one of the intervals of the list
Covered(ranges, t) ==
    \E i \in 1..Len(ranges) : ranges[i].start <= t /\ t <= ranges[i].end

\* the timestamps at which what a list covers can change
Edges(ranges) ==
    UNION {{ranges[i].start - 1, ranges[i].start, ranges[i].end, ranges[i].end + 1} :
           i \in 1..Len(ranges)}

\* the lists the children of the evaluated condition return
ChildLists ==
    [k \in 1..Len(op.block.blocks) |-> ChildResult(op.block.blocks, k).value]

ChildrenSucceed ==
    \A k \in 1..Len(op.block.blocks) : ChildResult(op.block.blocks, k).kind = "success"

ChildEdges == UNION {Edges(ChildLists[k]) : k \in 1..Len(op.block.blocks)}

\* C23: the intersection of the lists the children of an And return covers
\* exactly the timestamps that every one of the lists covers, also when a
\* list produced with merge off has overlapping or touching intervals.
C23_IntersectionCoversCommonTimestamps ==
    (/\ op.name = "evaluate" /\ op.block.type = "ConditionAnd"
     /\ Len(op.block.blocks) > 0 /\ ChildrenSucceed) =>
        /\ ret.kind = "success"
        /\ ret.value = sweepLineIntersection(ChildLists, EffectiveMerge)
               \/ \E k \in 1..Len(op.block.blocks) : ChildLists[k] = <<>>
        /\ \A t \in ChildEdges \cup Edges(ret.value) :
               Covered(ret.value, t) <=>
                   \A k \in 1..Len(op.block.blocks) : Covered(ChildLists[k], t)

\* one interval of the list holds both timestamps
Joins(ranges, t1, t2) ==
    \E i \in 1..Len(ranges) :
        /\ ranges[i].start <= t1 /\ t1 <= ranges[i].end
        /\ ranges[i].start <= t2 /\ t2 <= ranges[i].end

\* C24: two intervals returned by the children of an Or that are adjacent
\* (the second starts one millisecond after the first ends) and that no
\* child interval bridges are one interval of the Or's result when the
\* effective merge is on and two separate intervals when it is off.
C24_UnionJoinsAdjacentOnlyWhenMerging ==
    (/\ op.name = "evaluate" /\ op.block.type = "ConditionOr"
     /\ Len(op.block.blocks) > 0 /\ ChildrenSucceed) =>
        /\ ret.kind = "success"
        /\ \A j, k \in 1..Len(op.block.blocks) :
             \A a \in 1..Len(ChildLists[j]), b \in 1..Len(ChildLists[k]) :
                LET x == ChildLists[j][a].end IN
                (/\ ChildLists[k][b].start = x + 1
                 /\ \A l \in 1..Len(op.block.blocks) : ~Joins(ChildLists[l], x, x + 1)) =>
                    (Joins(ret.value, x, x + 1) <=> EffectiveMerge)

\* C25: the complement a Not returns covers exactly the timestamps of the
\* domain that no interval of its child's list covers, also when that list
\* was produced with merge off and is overlapping or not sorted by start.
C25_ComplementCoversTheRest ==
    (/\ op.name = "evaluate" /\ op.block.type = "ConditionNot"
     /\ Len(op.block.blocks) = 1 /\ ChildrenSucceed) =>
        /\ ret.kind = "success"
        /\ \A t \in ChildEdges \cup Edges(ret.value) \cup {op.startUnix, op.endUnix} :
               Covered(ret.value, t) <=>
                   /\ op.startUnix <= t /\ t <= op.endUnix
                   /\ ~Covered(ChildLists[1], t)

-----------------------------------------------------------------------------
(* Cache writes (CacheSpec, Spec) *)

\* C26: after cache.set(block, s, e, R) the cache holds no other entry of
\* the same block hash whose stored range lies inside [s, e].
C26_SetDropsEveryNarrowerEntry ==
    op.name = "set" =>
        \A i \in 1..Len(cache.entries) :
            (/\ KeyHasHash(cache.entries[i].key, getHash(op.block))
             /\ cache.entries[i].key # generateKey(op.block, op.startUnix, op.endUnix)) =>
                ~(/\ cache.entries[i].startUnix >= op.startUnix
                  /\ cache.entries[i].endUnix <= op.endUnix)

\* the entries of the cache without their access times
EntrySet(entries) ==
    {[key |-> entries[i].key, ranges |-> entries[i].ranges,
      startUnix |-> entries[i].startUnix, endUnix |-> entries[i].endUnix] :
         i \in 1..Len(entries)}

\* C27: Schedule.evaluate changes the set of cache entries only on a miss
\* whose evaluation succeeds with cacheAfter true and a result of at most
\* maxRangesPerEntry intervals; on a miss with cacheAfter false, a longer
\* result or a failed evaluation it returns what the block's evaluate
\* returned and leaves the cache as it was.  (A step that ends with op naming
\* Schedule.evaluate and does not move the clock is a ScheduleEvaluate step.)
C27_CacheWrittenOnlyAfterCachedMiss ==
    [][(op'.name = "Schedule.evaluate" /\ now' = now) =>
        LET written == EntrySet(cache'.entries) # EntrySet(cache.entries)
            result  == Evaluate(expressions[op'.id].block, op'.startUnix, op'.endUnix,
                                expressions, "undefined", MaxDepth)
        IN  /\ written =>
                 /\ ret'.hit = "miss" /\ ret'.kind = "success"
                 /\ op'.cacheAfter
                 /\ Len(ret'.value) <= cache.maxRangesPerEntry
            /\ (/\ ret'.hit = "miss"
                /\ \/ ~op'.cacheAfter
                   \/ ret'.kind # "success"
                   \/ Len(ret'.value) > cache.maxRangesPerEntry) =>
                 /\ cache' = cache
                 /\ (expressions[op'.id] # NoExpr /\ result.kind # "throw") =>
                        /\ ret'.kind = result.kind
                        /\ ret'.value = result.value
                        /\ ret'.error = result.error]_vars

\* a result longer than maxRangesPerEntry was returned and not stored
C27_Witness ==
    /\ op.name = "Schedule.evaluate" /\ op.cacheAfter
    /\ ret.kind = "success" /\ ret.hit = "miss"
    /\ Len(ret.value) > cache.maxRangesPerEntry
    /\ cache.entries = <<>>

-----------------------------------------------------------------------------
(* Reference cycles (EvalSpec) *)

RECURSIVE RefIds(_)
\* the ids of the References in a block
RefIds(block) ==
    IF block.type = "Reference" THEN {block.id}
    ELSE UNION {RefIds(block.blocks[i]) : i \in 1..Len(block.blocks)}

\* the ids the expressions registered under some ids refer to
RefStep(ids, schedule) ==
    UNION {RefIds(schedule[id].block) :
           id \in {i \in ids \cap DOMAIN schedule : schedule[i] # NoExpr}}

RECURSIVE RefClosure(_, _, _)
RefClosure(ids, schedule, n) ==
    IF n = 0 THEN ids
    ELSE RefClosure(ids \cup RefStep(ids, schedule), schedule, n - 1)

\* the expression registered under id reaches a Reference to id
OnCycle(id, schedule) ==
    id \in RefClosure(RefStep({id}, schedule), schedule, Cardinality(Ids))

\* the reference graph reachable from the block has a cycle
HasCycle(block, schedule) ==
    \E id \in RefClosure(RefIds(block), schedule, Cardinality(Ids)) : OnCycle(id, schedule)

Overflows == ret.kind = "throw" /\ ret.error = "RangeError"

-----------------------------------------------------------------------------
(* Inserting values (HashSpec) *)

\* C29: addValue(value, index) with a valid value and an index from 0 to the
\* length of the list returns and leaves the list with exactly one copy of
\* the value inserted at that position, for every field type; with an index
\* outside that range it throws and leaves the list as it was.
C29_AddValueInsertsOnceAtIndex ==
    [][AddValue =>
        LET values == built.block.values IN
        op'.hasIndex =>
            IF op'.index >= 0 /\ op'.index <= Len(values)
            THEN /\ ret'.kind = "success"
                 /\ built'.block.values = Splice(values, op'.index, op'.value)
            ELSE /\ ret'.kind = "throw"
                 /\ built'.block.values = values]_vars

-----------------------------------------------------------------------------
(* The order in which And and Or evaluate their children (EvalSpec) *)

\* the children of one group, in the order they were added
OfGroup(blocks, group) == SelectSeq(blocks, LAMBDA b : blockGroup(b) = group)

\* the k-th child ends the loop: it returned an error or threw, or it
\* returned the empty list to an And
EndsLoop(sorted, k) ==
    \/ ChildResult(sorted, k).kind # "success"
    \/ op.block.type = "ConditionAnd" /\ Len(ChildResult(sorted, k).value) = 0

\* the last child the loop evaluates
LastVisited(sorted) ==
    IF \E k \in 1..Len(sorted) : EndsLoop(sorted, k)
    THEN CHOOSE k \in 1..Len(sorted) :
             EndsLoop(sorted, k) /\ \A i \in 1..(k - 1) : ~EndsLoop(sorted, i)
    ELSE Len(sorted)

RECURSIVE Visits(_, _, _)
\* the calls made when the children k..n are evaluated one after another
Visits(sorted, k, n) ==
    IF k > n THEN <<>>
    ELSE <<ChildCall(op.block, op.merge, op.merge, sorted[k])>>
         \o ChildResult(sorted, k).calls \o Visits(sorted, k + 1, n)

====
